---- MODULE Spec2Model ----
(***************************************************************************)
(* A model of the nodie HTML construction pipeline (HTMLNode.from_dict),   *)
(* the Children container and the serializer (to_html).                    *)
(*                                                                         *)
(* Python strings are sequences of one-character strings, Python values    *)
(* are records [t |-> <type name>, v |-> <payload>], dictionaries are      *)
(* sequences of <<key, value>> pairs in insertion order, and objects live  *)
(* in a heap: a sequence of node records addressed by their index.         *)
(***************************************************************************)
EXTENDS Integers, Sequences, FiniteSets, TLC

VARIABLES input, stack, heap, root, outcome, pc, ops, rendered, html,
          last, builds, first_html, mapper

vars == <<input, stack, heap, root, outcome, pc, ops, rendered, html, last, builds, first_html, mapper>>

(***************************************************************************)
(* Program constants.                                                      *)
(***************************************************************************)
MAX_RECURSION_DEPTH == 100

MAX_TAG_NAME_LENGTH == 50

MAX_ATTRIBUTE_VALUE_LENGTH == 1000

(***************************************************************************)
(* Bounds of the model.                                                    *)
(***************************************************************************)
\* entries of a generated attribute map
MaxAttrs == 2

\* how far beyond the recursion ceiling the generated chains of nested
\* dictionaries reach
MaxOverDepth == 2

\* mutations of a built tree
\* the calls of from_dict on the same input after the first one
MaxRebuilds == 1

\* the calls made on one tree in the specification of the container
MaxMutations == 3

\* the calls made on the styles and the attributes of one tree
MaxAttrCalls == 2

MaxOps == 1

(***************************************************************************)
(* Strings.                                                                *)
(***************************************************************************)
UpperCase == <<"A","B","C","D","E","F","G","H","I","J","K","L","M",
               "N","O","P","Q","R","S","T","U","V","W","X","Y","Z">>

LowerCase == <<"a","b","c","d","e","f","g","h","i","j","k","l","m",
               "n","o","p","q","r","s","t","u","v","w","x","y","z">>

LowerLetters == {LowerCase[i] : i \in 1..26}

Digits == {"0","1","2","3","4","5","6","7","8","9"}

Whitespace == {" ", "\t", "\n"}

\* the characters of s, n times c
Rep(c, n) == [i \in 1..n |-> c]

\* str.lower
LowerChar(c) ==
    IF \E i \in 1..26 : UpperCase[i] = c
    THEN LowerCase[CHOOSE i \in 1..26 : UpperCase[i] = c]
    ELSE c

Lower(s) == [i \in 1..Len(s) |-> LowerChar(s[i])]

\* str.strip
Strip(s) ==
    LET keep == {i \in 1..Len(s) : s[i] \notin Whitespace}
    IN  IF keep = {} THEN <<>>
        ELSE SubSeq(s, CHOOSE i \in keep : \A j \in keep : i <= j,
                       CHOOSE i \in keep : \A j \in keep : i >= j)

\* str.startswith
StartsWith(s, p) == Len(s) >= Len(p) /\ SubSeq(s, 1, Len(p)) = p

\* p in s
Contains(s, p) ==
    \E i \in 1..(Len(s) - Len(p) + 1) : SubSeq(s, i, i + Len(p) - 1) = p

\* value[:n]
Truncate(s, n) == IF Len(s) > n THEN SubSeq(s, 1, n) ELSE s

\* "".join(parts)
RECURSIVE Join(_)
Join(parts) ==
    IF parts = <<>> THEN <<>> ELSE Head(parts) \o Join(Tail(parts))

\* sep.join(parts)
RECURSIVE JoinWith(_, _)
JoinWith(sep, parts) ==
    IF parts = <<>> THEN <<>>
    ELSE IF Len(parts) = 1 THEN parts[1]
    ELSE parts[1] \o sep \o JoinWith(sep, Tail(parts))

(***************************************************************************)
(* Python values.                                                          *)
(***************************************************************************)
PyStr(s) == [t |-> "str", v |-> s]

PyNone == [t |-> "NoneType", v |-> <<>>]

PyInt(n) == [t |-> "int", v |-> <<n>>]

PyDict(pairs) == [t |-> "dict", v |-> pairs]

PyList(items) == [t |-> "list", v |-> items]

PyTuple(items) == [t |-> "tuple", v |-> items]

\* key in d, for d a sequence of <<key, value>> pairs
DictHas(d, k) == \E i \in 1..Len(d) : d[i][1] = k

\* d[key]
DictGet(d, k) == d[CHOOSE i \in 1..Len(d) : d[i][1] = k][2]

\* d[key] = value: an existing key keeps its place, a new key goes last
DictSet(d, k, val) ==
    IF DictHas(d, k)
    THEN [i \in 1..Len(d) |-> IF d[i][1] = k THEN <<k, val>> ELSE d[i]]
    ELSE Append(d, <<k, val>>)

DictKeys(d) == {d[i][1] : i \in 1..Len(d)}

\* The dictionary of a node is a record whose fields are the keys present.
\* Deep inputs are kept short: a dictionary with wraps = n > 0 stands for
\* {"tag_name": "div", "children": [d]}, d the same dictionary with
\* wraps = n - 1.
WRAPPER_TAG == <<"d","i","v">>

Unwrap(d) == [d EXCEPT !.wraps = @ - 1]

\* key in interpretable_data
HasKey(d, key) ==
    IF d.wraps > 0 THEN key \in {"tag_name", "children"}
    ELSE key \in DOMAIN d.v

\* interpretable_data.get(key, default)
Get(d, key, default) ==
    IF ~HasKey(d, key) THEN default
    ELSE IF d.wraps > 0
    THEN IF key = "tag_name" THEN PyStr(WRAPPER_TAG) ELSE PyList(<<Unwrap(d)>>)
    ELSE d.v[key]

(***************************************************************************)
(* Names used by the code.                                                 *)
(***************************************************************************)
STYLE == <<"s","t","y","l","e">>

ID == <<"i","d">>

DEFAULT == <<"d","e","f","a","u","l","t">>

DANGEROUS_ATTRIBUTES == {
    <<"o","n","c","l","i","c","k">>,
    <<"o","n","l","o","a","d">>,
    <<"o","n","e","r","r","o","r">>,
    <<"o","n","m","o","u","s","e","o","v","e","r">>,
    <<"o","n","m","o","u","s","e","o","u","t">>,
    <<"o","n","k","e","y","d","o","w","n">>,
    <<"o","n","k","e","y","u","p">>,
    <<"o","n","k","e","y","p","r","e","s","s">>,
    <<"o","n","f","o","c","u","s">>,
    <<"o","n","b","l","u","r">>,
    <<"o","n","c","h","a","n","g","e">>,
    <<"o","n","s","u","b","m","i","t">>,
    <<"o","n","r","e","s","e","t">>,
    <<"o","n","d","b","l","c","l","i","c","k">>,
    <<"o","n","c","o","n","t","e","x","t","m","e","n","u">>,
    <<"o","n","i","n","p","u","t">>,
    <<"o","n","s","e","l","e","c","t">>,
    <<"o","n","d","r","a","g">>,
    <<"o","n","d","r","o","p">>,
    <<"o","n","s","c","r","o","l","l">> }

DANGEROUS_PROTOCOLS == <<
    <<"j","a","v","a","s","c","r","i","p","t",":">>,
    <<"d","a","t","a",":">>,
    <<"v","b","s","c","r","i","p","t",":">>,
    <<"f","i","l","e",":">> >>

(***************************************************************************)
(* The tag catalog: tag name -> (tag-specific attribute names, void flag), *)
(* and the attribute names legal on every tag.                             *)
(***************************************************************************)
HTML_TAGS == {
    [name |-> <<"d","i","v">>, attrs |-> {}, self_closed |-> FALSE],
    [name |-> <<"p">>, attrs |-> {}, self_closed |-> FALSE],
    [name |-> <<"a">>, attrs |-> {<<"h","r","e","f">>}, self_closed |-> FALSE],
    [name |-> <<"i","m","g">>,
     attrs |-> {<<"s","r","c">>, <<"a","l","t">>}, self_closed |-> TRUE],
    [name |-> <<"b","r">>, attrs |-> {}, self_closed |-> TRUE] }

GLOBAL_ATTRIBUTES ==
    {<<"c","l","a","s","s">>, ID, STYLE, <<"t","i","t","l","e">>}

EVENT_ATTRIBUTES == DANGEROUS_ATTRIBUTES

\* HTML_TAGS.get(name, None) is not None
HasTag(name) == \E e \in HTML_TAGS : e.name = name

\* HTML_TAGS[name]
TagValues(name) == CHOOSE e \in HTML_TAGS : e.name = name

(***************************************************************************)
(* Attributes: the attribute set of one node.                              *)
(***************************************************************************)
CombineAllPossibleAttributes(tag_name) ==
    (IF HasTag(tag_name) THEN TagValues(tag_name).attrs ELSE {})
        \cup GLOBAL_ATTRIBUTES \cup EVENT_ATTRIBUTES

\* the attributes whose name the catalog knows for the tag, in order
RECURSIVE IntrospectAttributes(_, _)
IntrospectAttributes(tag_name, attributes) ==
    IF attributes = <<>> THEN <<>>
    ELSE IF attributes[1][1] \in CombineAllPossibleAttributes(tag_name)
         THEN <<attributes[1]>> \o IntrospectAttributes(tag_name, Tail(attributes))
         ELSE IntrospectAttributes(tag_name, Tail(attributes))

\* Attributes(attributes, tag_name)
AttributesInit(attributes, tag_name) ==
    IntrospectAttributes(tag_name, attributes)

\* a generated identifier: no string of an input equals it
GeneratedId(n) == <<"uuid4:", ToString(n)>>

\* Attributes.get_unique_id, for the n-th object created
GetUniqueId(attributes, n) ==
    IF DictHas(attributes, ID) THEN DictGet(attributes, ID) ELSE GeneratedId(n)

\* Attributes.attributes_to_html_string
AttributesToHtmlString(attributes) ==
    JoinWith(<<" ">>,
             [i \in 1..Len(attributes) |->
                 attributes[i][1] \o <<"=", "'">> \o attributes[i][2] \o <<"'">>])

(***************************************************************************)
(* InlineStyleAttributes: the inline style set of one node.                *)
(***************************************************************************)
DANGEROUS_PATTERNS == <<
    <<"j","a","v","a","s","c","r","i","p","t",":">>,
    <<"e","x","p","r","e","s","s","i","o","n","(">>,
    <<"<","s","c","r","i","p","t">> >>

\* str(value), of a string and of an int of one digit
Str(value) == IF value.t = "int" THEN <<ToString(value.v[1])>> ELSE value.v

\* the patterns looked for in the value as it is written
CleanStyleValueCaseSensitive(value) ==
    IF value.t = "NoneType" THEN <<>>
    ELSE LET str_value == Strip(Str(value))
         IN  IF \E i \in 1..Len(DANGEROUS_PATTERNS) :
                    Contains(str_value, DANGEROUS_PATTERNS[i])
             THEN <<>>
             ELSE str_value

\* clean_style_value, for a value that is a string or None
CleanStyleValue(value) ==
    IF value.t = "NoneType" THEN <<>>
    ELSE LET str_value == Strip(Str(value))
         IN  IF \E i \in 1..Len(DANGEROUS_PATTERNS) :
                    Contains(Lower(str_value), Lower(DANGEROUS_PATTERNS[i]))
             THEN <<>>
             ELSE str_value

RECURSIVE ValidateStylesFrom(_, _)
ValidateStylesFrom(styles, validated_styles) ==
    IF styles = <<>> THEN validated_styles
    ELSE LET normalized_property == Lower(Strip(styles[1][1]))
             cleaned_value == CleanStyleValue(styles[1][2])
         IN  ValidateStylesFrom(
                 Tail(styles),
                 IF cleaned_value # <<>>
                 THEN DictSet(validated_styles, normalized_property, cleaned_value)
                 ELSE validated_styles)

\* InlineStyleAttributes.validate_styles
ValidateStyles(styles) == ValidateStylesFrom(styles, <<>>)

\* InlineStyleAttributes(styles)
InlineStyleAttributesInit(styles) == ValidateStyles(styles)

\* InlineStyleAttributes.update_attr: the styles after the call
StylesUpdateAttr(styles, attribute_name, value, create_new) ==
    LET normalized_property == Lower(Strip(attribute_name))
    IN  IF ~create_new /\ ~DictHas(styles, normalized_property) THEN styles
        ELSE LET cleaned_value == CleanStyleValue(value)
             IN  IF cleaned_value # <<>>
                 THEN DictSet(styles, normalized_property, cleaned_value)
                 ELSE styles

\* InlineStyleAttributes.remove_attr: the styles after the call
StylesRemoveAttr(styles, attribute_name) ==
    LET normalized_property == Lower(Strip(attribute_name))
    IN  SelectSeq(styles, LAMBDA entry : entry[1] # normalized_property)

\* InlineStyleAttributes.remove_attrs: the styles after the call
StylesRemoveAttrs(styles) == <<>>

\* the styles written without the space after the closing quote
StylesToStringTight(styles) ==
    IF styles = <<>> THEN <<>>
    ELSE LET style_parts == [i \in 1..Len(styles) |->
                                styles[i][1] \o <<":", " ">> \o styles[i][2]]
         IN  <<" ","s","t","y","l","e","=","'">>
                 \o JoinWith(<<";", " ">>, style_parts) \o <<";">>
                 \o <<"'">>

\* InlineStyleAttributes.to_string
StylesToString(styles) ==
    IF styles = <<>> THEN <<>>
    ELSE LET style_parts == [i \in 1..Len(styles) |->
                                styles[i][1] \o <<":", " ">> \o styles[i][2]]
         IN  <<" ","s","t","y","l","e","=","'">>
                 \o JoinWith(<<";", " ">>, style_parts) \o <<";">>
                 \o <<"'", " ">>

(***************************************************************************)
(* Results of a call: a value, or the exception raised.                    *)
(***************************************************************************)
\* an exception message: its text, and the value formatted into it
Msg(text, arg) == [text |-> text, arg |-> arg]

NoMsg == Msg("", <<>>)

\* raise exc(msg)
Raise(exc, msg) ==
    [ok |-> FALSE, exc |-> exc, msg |-> msg, value |-> <<>>]

\* return value
Return(value) ==
    [ok |-> TRUE, exc |-> "", msg |-> NoMsg, value |-> value]

(***************************************************************************)
(* The children of a node: references to nodes of the heap, and strings.   *)
(***************************************************************************)
NodeChild(ref) == [t |-> "HTMLNode", ref |-> ref, v |-> <<>>]

TextChild(text) == [t |-> "str", ref |-> 0, v |-> text]

\* HTMLNode.__init__, for the n-th object created
HTMLNodeInit(tag_name, attributes, is_self_closed_tag, inline_styles, children, attrs_map_identifier, n) ==
    [node_id |-> GetUniqueId(attributes, n),
     tag_name |-> tag_name,
     attributes |-> attributes,
     inline_styles |-> inline_styles,
     children |-> children,
     is_self_closed_tag |-> is_self_closed_tag,
     attrs_map_identifier |-> attrs_map_identifier]

(***************************************************************************)
(* HTMLNode.from_dict and its validation steps.                            *)
(***************************************************************************)
\* re.match(r"^[a-z][a-z0-9-]*", s): some prefix of s matches
MatchesTagNamePattern(s) ==
    \E n \in 1..Len(s) :
        /\ s[1] \in LowerLetters
        /\ \A i \in 2..n : s[i] \in LowerLetters \cup Digits \cup {"-"}

\* re.match(r"^[a-z][a-z0-9-_]*", s): some prefix of s matches
MatchesAttributeNamePattern(s) ==
    \E n \in 1..Len(s) :
        /\ s[1] \in LowerLetters
        /\ \A i \in 2..n : s[i] \in LowerLetters \cup Digits \cup {"-", "_"}

\* the length of the tag name tested before its pattern
ValidateTagNameLengthFirst(raw_tag_name) ==
    LET tag_name == Lower(Strip(raw_tag_name))
    IN  IF Len(tag_name) > MAX_TAG_NAME_LENGTH
        THEN Raise("SecurityError",
                   Msg("Tag name too long: {} characters",
                       <<ToString(Len(tag_name))>>))
        ELSE IF ~MatchesTagNamePattern(tag_name)
        THEN Raise("SecurityError",
                   Msg("Tag name contains invalid characters: '{}'. Only alphanumeric characters and hyphens are allowed.",
                       tag_name))
        ELSE Return(tag_name)

\* HTMLNode.__validate_tag_name
ValidateTagName(raw_tag_name) ==
    LET tag_name == Lower(Strip(raw_tag_name))
    IN  IF ~MatchesTagNamePattern(tag_name)
        THEN Raise("SecurityError",
                   Msg("Tag name contains invalid characters: '{}'. Only alphanumeric characters and hyphens are allowed.",
                       tag_name))
        ELSE IF Len(tag_name) > MAX_TAG_NAME_LENGTH
        THEN Raise("SecurityError",
                   Msg("Tag name too long: {} characters",
                       <<ToString(Len(tag_name))>>))
        ELSE Return(tag_name)

\* the protocol check on the value as written, not on lower_value
ValidateAttributeValueCaseSensitive(value) ==
    IF \E i \in 1..Len(DANGEROUS_PROTOCOLS) :
           StartsWith(value, DANGEROUS_PROTOCOLS[i])
    THEN PyNone
    ELSE IF Len(value) > MAX_ATTRIBUTE_VALUE_LENGTH
    THEN PyStr(SubSeq(value, 1, MAX_ATTRIBUTE_VALUE_LENGTH))
    ELSE PyStr(value)

\* a value that is too long refused, not truncated
ValidateAttributeValueRefusesLong(value) ==
    LET lower_value == Lower(value)
    IN  IF \E i \in 1..Len(DANGEROUS_PROTOCOLS) :
               StartsWith(lower_value, DANGEROUS_PROTOCOLS[i])
        THEN PyNone
        ELSE IF Len(value) > MAX_ATTRIBUTE_VALUE_LENGTH
        THEN PyNone
        ELSE PyStr(value)

\* HTMLNode.__validate_attribute_value: the safe value, or None
ValidateAttributeValue(value) ==
    LET lower_value == Lower(value)
    IN  IF \E i \in 1..Len(DANGEROUS_PROTOCOLS) :
               StartsWith(lower_value, DANGEROUS_PROTOCOLS[i])
        THEN PyNone
        ELSE IF Len(value) > MAX_ATTRIBUTE_VALUE_LENGTH
        THEN PyStr(SubSeq(value, 1, MAX_ATTRIBUTE_VALUE_LENGTH))
        ELSE PyStr(value)

\* the denylist looked up with the key as written, not with normalized_key
ValidateAttributeRawKey(key, value, safe_attrs) ==
    LET normalized_key == Lower(Strip(key))
    IN  IF key \in DANGEROUS_ATTRIBUTES THEN safe_attrs
        ELSE IF ~MatchesAttributeNamePattern(normalized_key) THEN safe_attrs
        ELSE IF normalized_key = STYLE
        THEN DictSet(safe_attrs, normalized_key, value)
        ELSE IF value.t = "str"
        THEN LET safe_value == ValidateAttributeValue(value.v)
             IN  IF safe_value.t # "NoneType"
                 THEN DictSet(safe_attrs, normalized_key, safe_value)
                 ELSE safe_attrs
        ELSE safe_attrs

\* a value that is no string discards the attributes validated before it
ValidateAttributeResetsOnNonString(key, value, safe_attrs) ==
    LET normalized_key == Lower(Strip(key))
    IN  IF normalized_key \in DANGEROUS_ATTRIBUTES THEN safe_attrs
        ELSE IF ~MatchesAttributeNamePattern(normalized_key) THEN safe_attrs
        ELSE IF normalized_key = STYLE
        THEN DictSet(safe_attrs, normalized_key, value)
        ELSE IF value.t = "str"
        THEN LET safe_value == ValidateAttributeValue(value.v)
             IN  IF safe_value.t # "NoneType"
                 THEN DictSet(safe_attrs, normalized_key, safe_value)
                 ELSE safe_attrs
        ELSE <<>>

\* one iteration of the loop of HTMLNode.__validate_attributes
ValidateAttribute(key, value, safe_attrs) ==
    LET normalized_key == Lower(Strip(key))
    IN  IF normalized_key \in DANGEROUS_ATTRIBUTES THEN safe_attrs
        ELSE IF ~MatchesAttributeNamePattern(normalized_key) THEN safe_attrs
        ELSE IF normalized_key = STYLE
        THEN DictSet(safe_attrs, normalized_key, value)
        ELSE IF value.t = "str"
        THEN LET safe_value == ValidateAttributeValue(value.v)
             IN  IF safe_value.t # "NoneType"
                 THEN DictSet(safe_attrs, normalized_key, safe_value)
                 ELSE safe_attrs
        ELSE safe_attrs

RECURSIVE ValidateAttributesFrom(_, _)
ValidateAttributesFrom(attrs, safe_attrs) ==
    IF attrs = <<>> THEN safe_attrs
    ELSE ValidateAttributesFrom(
             Tail(attrs), ValidateAttribute(attrs[1][1], attrs[1][2], safe_attrs))

\* HTMLNode.__validate_attributes
ValidateAttributes(attrs) == ValidateAttributesFrom(attrs, <<>>)

\* HTMLNode.__sanitize_text_content: re.sub(r"[<>&]", "", text)
RECURSIVE SanitizeTextContent(_)
SanitizeTextContent(text) ==
    IF text = <<>> THEN <<>>
    ELSE IF Head(text) \in {"<", ">", "&"}
         THEN SanitizeTextContent(Tail(text))
         ELSE <<Head(text)>> \o SanitizeTextContent(Tail(text))

\* HTMLNode.__create_inline_style_attributes_instance
CreateInlineStyleAttributesInstance(raw_attrs) ==
    IF ~DictHas(raw_attrs, STYLE) THEN Return(InlineStyleAttributesInit(<<>>))
    ELSE LET style_attrs == DictGet(raw_attrs, STYLE)
         IN  IF style_attrs.t # "dict"
             THEN Raise("ValueError",
                        Msg("Style attribute must be a dictionary", <<>>))
             ELSE Return(InlineStyleAttributesInit(style_attrs.v))

\* HTMLNode.__generate_raw_attributes_from_dict: the raw attributes and
\* the identifier
GenerateRawAttributesFromDict(interpretable_data, attrs_mapper) ==
    IF attrs_mapper.t = "NoneType" \/ attrs_mapper.v = <<>>
    THEN <<Get(interpretable_data, "attributes", PyDict(<<>>)), DEFAULT>>
    ELSE LET given == Get(interpretable_data, "attrs_map_identifier", PyNone)
             attrs_identifier ==
                 IF given.t = "NoneType" THEN DEFAULT ELSE given.v
         IN  <<IF DictHas(attrs_mapper.v, attrs_identifier)
               THEN DictGet(attrs_mapper.v, attrs_identifier)
               ELSE PyDict(<<>>),
               attrs_identifier>>

\* HTMLNode.__clean_attributes: the string attributes other than style
RECURSIVE CleanAttributes(_)
CleanAttributes(raw_attrs) ==
    IF raw_attrs = <<>> THEN <<>>
    ELSE IF raw_attrs[1][1] # STYLE /\ raw_attrs[1][2].t = "str"
         THEN <<<<raw_attrs[1][1], raw_attrs[1][2].v>>>>
                  \o CleanAttributes(Tail(raw_attrs))
         ELSE CleanAttributes(Tail(raw_attrs))

\* the activation of from_dict after its checks: what it has computed, the
\* children still to generate and the children generated so far
Frame(depth, tag_name, clean_attrs, attributes, is_self_closed_tag, inline_styles, attrs_identifier, children) ==
    [depth |-> depth,
     clean_attrs |-> clean_attrs,
     tag_name |-> tag_name,
     attributes |-> attributes,
     is_self_closed_tag |-> is_self_closed_tag,
     inline_styles |-> inline_styles,
     attrs_map_identifier |-> attrs_identifier,
     todo |-> children,
     children_nodes |-> <<>>]

\* the depth check with the ceiling itself refused
DepthExceededAtCeiling(depth) == depth >= MAX_RECURSION_DEPTH

\* _depth > MAX_RECURSION_DEPTH
DepthExceeded(depth) == depth > MAX_RECURSION_DEPTH

\* the check with None taken for an absent children field
IsChildrenSequenceOrNone(children) ==
    children.t \in {"tuple", "list", "NoneType"}

\* isinstance(children, tuple | list)
IsChildrenSequence(children) == children.t \in {"tuple", "list"}

\* HTMLNode.from_dict(interpretable_data, attrs_mapper, _depth) up to the
\* call of generate_children: the exception it raises, or its activation
FromDictEnter(interpretable_data, attrs_mapper, depth) ==
    IF DepthExceeded(depth)
    THEN Raise("SecurityError",
               Msg("Maximum recursion depth ({}) exceeded. Possible DoS attack or malformed data.",
                   <<ToString(MAX_RECURSION_DEPTH)>>))
    ELSE
    LET tag_name == Get(interpretable_data, "tag_name", PyNone)
    IN
    IF tag_name.t # "str"
    THEN Raise("TypeError",
               Msg("Tag name must be a string, got {}", <<tag_name.t>>))
    ELSE
    LET validated == ValidateTagName(tag_name.v)
    IN
    IF ~validated.ok THEN validated
    ELSE
    LET validated_tag_name == validated.value
    IN
    IF ~HasTag(validated_tag_name)
    THEN Raise("ValueError",
               Msg("Invalid or unsupported tag name: '{}'", tag_name.v))
    ELSE
    LET is_self_closed_tag == TagValues(validated_tag_name).self_closed
        raw == GenerateRawAttributesFromDict(interpretable_data, attrs_mapper)
        raw_attrs == raw[1]
        attrs_identifier == raw[2]
    IN
    IF raw_attrs.t # "dict"
    THEN Raise("AttributeError",
               Msg("'{}' object has no attribute 'items'", <<raw_attrs.t>>))
    ELSE
    LET safe_raw_attrs == ValidateAttributes(raw_attrs.v)
        inline_styles == CreateInlineStyleAttributesInstance(safe_raw_attrs)
    IN
    IF ~inline_styles.ok THEN inline_styles
    ELSE
    LET clean_attrs == CleanAttributes(safe_raw_attrs)
        attributes == AttributesInit(clean_attrs, validated_tag_name)
        children == Get(interpretable_data, "children", PyTuple(<<>>))
    IN
    IF ~IsChildrenSequence(children)
    THEN Raise("TypeError",
               Msg("Children must be an iterable, got {}", <<children.t>>))
    ELSE Return(Frame(depth, validated_tag_name, clean_attrs, attributes,
                      is_self_closed_tag, inline_styles.value,
                      attrs_identifier, children.v))

\* one iteration of the loop of HTMLNode.generate_children on a child that
\* is no dictionary: the children_nodes after it
GenerateTextChild(child_data, children_nodes) ==
    IF child_data.t = "str"
    THEN Append(children_nodes, TextChild(SanitizeTextContent(child_data.v)))
    ELSE children_nodes

\* the node that from_dict makes of its finished activation: the n-th object
FrameNode(frame, n) ==
    HTMLNodeInit(frame.tag_name, frame.attributes, frame.is_self_closed_tag,
                 frame.inline_styles, frame.children_nodes,
                 frame.attrs_map_identifier, n)

(***************************************************************************)
(* The Children container.                                                 *)
(***************************************************************************)
\* add_child that appends whatever it is given
ChildrenAddChildUnchecked(children, child_node) ==
    Return(Append(children, child_node))

\* Children.add_child: the new children list, or TypeError
ChildrenAddChild(children, child_node) ==
    IF child_node.t \notin {"HTMLNode", "str"}
    THEN Raise("TypeError",
               Msg("Child must be Node or str, got {}", <<child_node.t>>))
    ELSE Return(Append(children, child_node))

\* the new children put before the existing ones
ChildrenAddChildrenInFront(children, new_children) == new_children \o children

\* Children.add_children: the new children list
ChildrenAddChildren(children, new_children) == children \o new_children

\* the identifier compared with the text of a string child as well
IsNodeOrTextWithId(h, child, child_node_id) ==
    \/ child.t = "HTMLNode" /\ h[child.ref].node_id = child_node_id
    \/ child.t = "str" /\ child.v = child_node_id

\* child is an HTMLNode of the heap h whose node_id is child_node_id
IsNodeWithId(h, child, child_node_id) ==
    child.t = "HTMLNode" /\ h[child.ref].node_id = child_node_id

\* Children.remove_child: the new children list
ChildrenRemoveChild(h, children, child_node_id) ==
    SelectSeq(children, LAMBDA child : ~IsNodeWithId(h, child, child_node_id))

\* Children.remove_children: the new children list
ChildrenRemoveChildren(children) == <<>>

\* update_attribute that creates the attribute whatever create_new is
NodeUpdateAttributeAlways(attributes, attribute_name, new_value, create_new) ==
    DictSet(attributes, attribute_name, new_value)

\* Node.update_attribute: the attributes after the call
NodeUpdateAttribute(attributes, attribute_name, new_value, create_new) ==
    IF create_new THEN DictSet(attributes, attribute_name, new_value)
    ELSE IF DictHas(attributes, attribute_name)
         THEN DictSet(attributes, attribute_name, new_value)
         ELSE attributes

\* Node.clean_attributes: the attributes after the call
NodeCleanAttributes(attributes) == <<>>

\* Attributes.update_attribute(attribute_name, new_value)
AttributesUpdateAttribute(attributes, attribute_name, new_value) ==
    DictSet(attributes, attribute_name, new_value)

\* update_node_id that leaves node_id as it is
HTMLNodeUpdateNodeIdKept(node, n) == node

\* HTMLNode.update_node_id; n numbers the identifier generated if there is
\* no id attribute
HTMLNodeUpdateNodeId(node, n) ==
    [node EXCEPT !.node_id = GetUniqueId(node.attributes, n)]

(***************************************************************************)
(* The serializer.                                                         *)
(***************************************************************************)
\* the attribute text put after the tag name even when it is a lone space
CreateOpenTagStringAlways(node, html_attrs) ==
    <<"<">> \o node.tag_name \o html_attrs \o <<">">>

\* the node_id written into the opening tag
CreateOpenTagStringWithNodeId(node, html_attrs) ==
    <<"<">> \o node.tag_name \o <<"#">> \o node.node_id \o html_attrs \o <<">">>

\* create_open_tag_string
CreateOpenTagString(node, html_attrs) ==
    LET tag_template ==
            IF Len(html_attrs) > 1 THEN node.tag_name \o html_attrs
            ELSE node.tag_name
    IN  <<"<">> \o tag_template \o <<">">>

\* create_close_tag_string
CreateCloseTagString(node) == <<"<", "/">> \o node.tag_name \o <<">">>

\* create_self_closing_tag_string
CreateSelfClosingTagString(node, html_attrs) ==
    LET tag_template ==
            IF Len(html_attrs) > 1 THEN node.tag_name \o html_attrs
            ELSE node.tag_name
    IN  <<"<">> \o tag_template \o <<"/", ">">>

RECURSIVE ToHtml(_, _)

\* a text child escaped when it is rendered
NodeToHtmlEscaped(h, child) ==
    IF child.t = "str" THEN SanitizeTextContent(child.v)
    ELSE ToHtml(h, child.ref)

\* node_to_html, for a child of a node of the heap h
NodeToHtml(h, child) ==
    IF child.t = "str" THEN child.v ELSE ToHtml(h, child.ref)

\* the self-closing tag followed by the children all the same
ToHtmlWithChildrenOfSelfClosed(h, ref) ==
    LET root_node == h[ref]
        inline_styles == StylesToString(root_node.inline_styles)
        html_attrs == inline_styles \o <<" ">>
                          \o AttributesToHtmlString(root_node.attributes)
        children == Join([i \in 1..Len(root_node.children) |->
                             NodeToHtml(h, root_node.children[i])])
    IN  IF root_node.is_self_closed_tag
        THEN CreateSelfClosingTagString(root_node, html_attrs) \o children
        ELSE CreateOpenTagString(root_node, html_attrs) \o children
                 \o CreateCloseTagString(root_node)

\* to_html(root_node), root_node the object at ref of the heap h
ToHtml(h, ref) ==
    LET root_node == h[ref]
        inline_styles == StylesToString(root_node.inline_styles)
        html_attrs == inline_styles \o <<" ">>
                          \o AttributesToHtmlString(root_node.attributes)
    IN  IF root_node.is_self_closed_tag
        THEN CreateSelfClosingTagString(root_node, html_attrs)
        ELSE CreateOpenTagString(root_node, html_attrs)
                 \o Join([i \in 1..Len(root_node.children) |->
                              NodeToHtml(h, root_node.children[i])])
                 \o CreateCloseTagString(root_node)

(***************************************************************************)
(* The inputs of the model: dictionaries given to from_dict.               *)
(***************************************************************************)
Absent == [present |-> FALSE, value |-> PyNone]

Present(value) == [present |-> TRUE, value |-> value]

\* the dictionary with the keys tag_name, attributes and children that are
\* present
NodeDict(tag_name, attributes, children) ==
    LET keys == (IF tag_name.present THEN {"tag_name"} ELSE {})
                    \cup (IF attributes.present THEN {"attributes"} ELSE {})
                    \cup (IF children.present THEN {"children"} ELSE {})
    IN  [t |-> "dict", wraps |-> 0,
         v |-> [k \in keys |->
                   IF k = "tag_name" THEN tag_name.value
                   ELSE IF k = "attributes" THEN attributes.value
                   ELSE children.value]]

DIV == <<"d","i","v">>

IMG == <<"i","m","g">>

CLASS == <<"c","l","a","s","s">>

HREF == <<"h","r","e","f">>

TITLE == <<"t","i","t","l","e">>

JAVASCRIPT == <<"j","a","v","a","s","c","r","i","p","t",":">>

\* tag names the catalog knows, some padded and in upper case
KnownTagNames ==
    { DIV, <<" ","D","I","V"," ">>, <<"p">>, <<"a">>, IMG,
      <<"\t","I","m","g","\n">>, <<"b","r">> }

\* tag names the catalog does not know: well formed, a valid prefix followed
\* by other characters, malformed from the first character, too long
UnknownTagNames ==
    { <<"x","y","z">>,
      <<"c","u","s","t","o","m","t","a","g">>,
      <<"d","i","v","<","s","c","r","i","p","t",">">>,
      <<"p"," ","x">>,
      <<"<","d","i","v">>,
      <<"1","a">>,
      <<>>,
      <<" "," ">>,
      Rep("a", MAX_TAG_NAME_LENGTH),
      <<" ">> \o Rep("a", MAX_TAG_NAME_LENGTH) \o <<" ">>,
      Rep("a", MAX_TAG_NAME_LENGTH + 1),
      DIV \o Rep("<", MAX_TAG_NAME_LENGTH),
      Rep("-", MAX_TAG_NAME_LENGTH + 1) }

TagChoices ==
    {Present(PyStr(n)) : n \in KnownTagNames \cup UnknownTagNames}
        \cup {Absent, Present(PyNone), Present(PyInt(7))}

\* the raw attributes that attribute maps are made of
AttrPool ==
    { <<CLASS, PyStr(<<"c">>)>>,
      <<<<" ","C","l","a","s","s">>, PyStr(<<"k">>)>>,
      <<ID, PyStr(<<"x">>)>>,
      <<CLASS, PyInt(3)>>,
      <<<<"o","n","c","l","i","c","k">>, PyStr(<<"f","(",")">>)>>,
      <<<<" ","O","n","E","r","r","o","r","\n">>, PyStr(<<"g">>)>>,
      <<HREF, PyStr(<<"u">>)>>,
      <<HREF, PyStr(JAVASCRIPT \o <<"x">>)>>,
      <<<<" ","H","r","e","f"," ">>, PyStr(<<"w">>)>>,
      <<TITLE, PyStr(<<"D","a","T","a",":","x">>)>>,
      <<TITLE, PyStr(<<" ">> \o JAVASCRIPT)>>,
      <<<<"1","x">>, PyStr(<<"v">>)>>,
      <<<<"i","d"," ","x","=">>, PyStr(<<"v">>)>>,
      <<STYLE, PyDict(<< <<<<"c","o","l","o","r">>, PyStr(<<"r","e","d">>)>> >>)>>,
      <<STYLE, PyStr(<<"c","o","l","o","r",":","r","e","d">>)>>,
      <<<<" ","S","t","y","l","e">>, PyNone>> }

\* the attribute maps of at most n entries of the pool, raw keys distinct
RECURSIVE AttrMaps(_)
AttrMaps(n) ==
    IF n = 0 THEN {<<>>}
    ELSE LET shorter == AttrMaps(n - 1)
         IN  shorter \cup
             {Append(x[1], x[2]) :
                 x \in {y \in shorter \X AttrPool :
                           Len(y[1]) = n - 1 /\ ~DictHas(y[1], y[2][1])}}

\* str.upper
Upper(s) ==
    [i \in 1..Len(s) |->
        IF \E j \in 1..26 : LowerCase[j] = s[i]
        THEN UpperCase[CHOOSE j \in 1..26 : LowerCase[j] = s[i]]
        ELSE s[i]]

\* every denylisted event attribute, as written and padded in upper case,
\* before and after an ordinary attribute
EventAttrMaps ==
    LET keys == DANGEROUS_ATTRIBUTES
                    \cup {<<" ">> \o Upper(k) \o <<"\t">> : k \in DANGEROUS_ATTRIBUTES}
    IN  {<< <<k, PyStr(<<"f">>)>>, <<CLASS, PyStr(<<"c">>)>> >> : k \in keys}
            \cup {<< <<ID, PyStr(<<"x">>)>>, <<k, PyDict(<<>>)>> >> : k \in keys}

\* every dangerous protocol, in lower and upper case, alone and followed by
\* short and long text; and long harmless values
ProtocolAttrMaps ==
    LET protocols == {DANGEROUS_PROTOCOLS[i] : i \in 1..Len(DANGEROUS_PROTOCOLS)}
        prefixes == protocols \cup {Upper(q) : q \in protocols}
        rests == {<<>>, <<"x">>, Rep("a", MAX_ATTRIBUTE_VALUE_LENGTH)}
    IN  {<< <<HREF, PyStr(q \o r)>>, <<CLASS, PyStr(<<"c">>)>> >> :
            q \in prefixes, r \in rests}
            \cup {<< <<TITLE, PyStr(Rep("b", n))>> >> :
                     n \in {MAX_ATTRIBUTE_VALUE_LENGTH,
                            MAX_ATTRIBUTE_VALUE_LENGTH + 1}}
            \cup {<< <<CLASS, PyStr(<<"c">>)>>,
                     <<TITLE, PyStr(<<" ", "A">> \o Rep("b", n) \o <<"c", "d">>)>> >> :
                     n \in {MAX_ATTRIBUTE_VALUE_LENGTH - 4,
                            MAX_ATTRIBUTE_VALUE_LENGTH - 3}}

\* maps with a denylisted key, a key that fails the name pattern, a value
\* that is no string and a value with a dangerous protocol, and with two
\* ordinary attributes before, between or after them
AnomalyAttrMaps ==
    LET anomalies == << <<<<"o","n","c","l","i","c","k">>, PyStr(<<"f">>)>>,
                        <<<<"1","x">>, PyStr(<<"v">>)>>,
                        <<CLASS, PyInt(3)>>,
                        <<HREF, PyStr(JAVASCRIPT \o <<"x">>)>> >>
        first == <<ID, PyStr(<<"x">>)>>
        second == <<<<" ","T","i","t","l","e"," ">>, PyStr(<<"a"," ","B">>)>>
    IN  { <<first, second>> \o anomalies,
          anomalies \o <<first, second>>,
          <<first>> \o anomalies \o <<second>>,
          SubSeq(anomalies, 1, 2) \o <<second, first>> \o SubSeq(anomalies, 3, 4),
          <<first, second>> \o anomalies
              \o << <<STYLE, PyDict(<< <<<<"c","o","l","o","r">>,
                                         PyStr(<<"r","e","d">>)>> >>)>> >> }

\* values of the children field
TextHi == PyStr(<<"h","i">>)

TextMarkup == PyStr(<<"<","b",">","&","x">>)

LeafP == NodeDict(Present(PyStr(<<"p">>)), Absent, Absent)

LeafImg ==
    NodeDict(Present(PyStr(IMG)),
             Present(PyDict(<< <<<<"s","r","c">>, PyStr(<<"u">>)>> >>)),
             Present(PyList(<<TextHi>>)))

LeafUnknown == NodeDict(Present(PyStr(<<"x","y","z">>)), Absent, Absent)

ParagraphWithText ==
    NodeDict(Present(PyStr(<<"p">>)),
             Present(PyDict(<< <<ID, PyStr(<<"x">>)>> >>)),
             Present(PyList(<<TextHi>>)))

ChildrenChoices ==
    { Absent,
      Present(PyList(<<>>)),
      Present(PyTuple(<<>>)),
      Present(PyList(<<TextHi>>)),
      Present(PyTuple(<<TextMarkup>>)),
      Present(PyList(<<LeafP>>)),
      Present(PyList(<<ParagraphWithText>>)),
      Present(PyTuple(<<TextHi, ParagraphWithText, TextMarkup>>)),
      Present(PyList(<<LeafImg, LeafP>>)),
      Present(PyList(<<LeafP, TextHi, LeafImg>>)),
      Present(PyList(<<LeafUnknown>>)),
      Present(PyList(<<TextHi, LeafUnknown, LeafP>>)),
      Present(PyList(<<PyInt(5)>>)),
      Present(PyList(<<LeafP,
                       NodeDict(Present(PyStr(DIV)),
                                Present(PyDict(<< <<STYLE, PyStr(<<"c">>)>> >>)),
                                Present(TextHi)),
                       NodeDict(Present(PyNone), Absent, Absent)>>)),
      Present(PyList(<<NodeDict(Present(PyStr(DIV)), Absent,
                                Present(PyList(<<TextHi, LeafUnknown>>))),
                       NodeDict(Present(PyInt(7)), Absent, Present(PyNone))>>)),
      Present(PyList(<<TextHi, PyNone, LeafP>>)),
      Present(PyTuple(<<PyInt(5), PyNone>>)),
      Present(PyList(<<NodeDict(Present(PyStr(DIV)), Absent,
                                Present(PyList(<<PyInt(5), TextHi>>)))>>)),
      Present(PyList(<<NodeDict(Present(PyStr(DIV)), Absent,
                                Present(TextHi))>>)),
      Present(TextHi),
      Present(PyNone),
      Present(PyInt(5)),
      Present(LeafP) }

\* n dictionaries nested in one another around inner: inner is at depth n
Chain(n, inner) == [inner EXCEPT !.wraps = n]

ChainLeaves ==
    { LeafP, LeafImg, LeafUnknown,
      NodeDict(Present(PyNone), Absent, Absent),
      NodeDict(Present(PyStr(DIV)), Absent, Present(PyList(<<TextHi>>))),
      NodeDict(Present(PyStr(DIV)), Absent, Present(TextHi)) }

ChainDepths ==
    (MAX_RECURSION_DEPTH - 1)..(MAX_RECURSION_DEPTH + MaxOverDepth)

\* chains that reach the recursion ceiling and beyond, alone and under a
\* root that has a fault of its own or another child before or after
ChainInputs ==
    LET chains == {Chain(n, leaf) : n \in ChainDepths, leaf \in ChainLeaves}
        below == {Chain(n - 1, leaf) : n \in ChainDepths, leaf \in {LeafP}}
    IN  chains
            \cup {NodeDict(Present(PyStr(<<"x","y","z">>)), Absent,
                           Present(PyList(<<c>>))) : c \in below}
            \cup {NodeDict(Present(PyStr(DIV)),
                           Present(PyDict(<< <<STYLE, PyStr(<<"c">>)>> >>)),
                           Present(PyList(<<c>>))) : c \in below}
            \cup {NodeDict(Present(PyStr(DIV)), Absent,
                           Present(PyList(<<LeafUnknown, c>>))) : c \in below}
            \cup {NodeDict(Present(PyStr(DIV)), Absent,
                           Present(PyList(<<c, LeafUnknown>>))) : c \in below}
            \cup {NodeDict(Present(PyStr(DIV)), Absent,
                           Present(PyTuple(<<TextHi, c, PyInt(5)>>))) : c \in below}

FewAttributes ==
    { Absent,
      Present(PyDict(<< <<CLASS, PyStr(<<"c">>)>> >>)),
      Present(PyDict(<< <<STYLE, PyStr(<<"c">>)>> >>)),
      Present(PyDict(<< <<STYLE, PyDict(<< <<<<"c","o","l","o","r">>,
                                              PyStr(<<"r","e","d">>)>> >>)>>,
                        <<ID, PyStr(<<"x">>)>> >>)) }

FewChildren ==
    {Absent, Present(PyList(<<TextHi, LeafP>>)), Present(TextHi)}

\* the inputs of from_dict: every tag choice, every attribute map and every
\* children choice, each with a few choices of the two others
FromDictInputs ==
    {NodeDict(t, a, c) : t \in TagChoices, a \in FewAttributes, c \in FewChildren}
        \cup {NodeDict(Present(PyStr(t)), Present(PyDict(a)), c) :
                 t \in {DIV, IMG, <<"a">>},
                 a \in AttrMaps(MaxAttrs) \cup EventAttrMaps \cup ProtocolAttrMaps
                          \cup AnomalyAttrMaps,
                 c \in {Absent}}
        \cup {NodeDict(Present(PyStr(t)), a, c) :
                 t \in {DIV, IMG, <<"x","y","z">>},
                 a \in FewAttributes, c \in ChildrenChoices}
        \cup {NodeDict(Present(PyStr(DIV)), Present(PyNone), Absent)}
        \cup ChainInputs

\* the inputs whose trees are then changed and serialized
TreeInputs ==
    {NodeDict(Present(PyStr(t)), a, c) :
        t \in {DIV, IMG},
        a \in FewAttributes \cup
                 {Present(PyDict(<< <<STYLE, PyDict(<<>>)>>,
                                    <<CLASS, PyStr(<<"c">>)>>,
                                    <<TITLE, PyStr(<<"a"," ","b">>)>> >>))},
        c \in ChildrenChoices}

(***************************************************************************)
(* The state machine: one call of from_dict on the input, then calls of    *)
(* add_child and to_html on the nodes of the tree it built.                *)
(***************************************************************************)
NoOutcome == [ok |-> TRUE, exc |-> "", msg |-> NoMsg]

\* the last call made on the built tree: the method, the node it was called
\* on, its arguments, and the children and the node_id of that node before
\* the call
Call(op, target, args, before, node_id) ==
    [op |-> op, target |-> target, args |-> args, before |-> before,
     node_id |-> node_id]

NoCall == Call("", 0, <<>>, <<>>, <<>>)

\* before the call from_dict(input, attrs_mapper=table)
StartWith(table) ==
    /\ mapper = table
    /\ stack = <<>>
    /\ heap = <<>>
    /\ root = 0
    /\ outcome = NoOutcome
    /\ pc = "start"
    /\ ops = 0
    /\ rendered = 0
    /\ html = <<>>
    /\ last = NoCall
    /\ builds = 0
    /\ first_html = <<>>

\* before the call from_dict(input): attrs_mapper has its default, None
Start == StartWith(PyNone)

Init == input \in TreeInputs /\ Start

InitFromDict == input \in FromDictInputs /\ Start

\* raise: the exception leaves every activation of from_dict
Fail(result) ==
    /\ outcome' = [ok |-> FALSE, exc |-> result.exc, msg |-> result.msg]
    /\ stack' = <<>>
    /\ heap' = <<>>
    /\ pc' = "failed"
    /\ UNCHANGED <<input, mapper, root, ops, rendered, html, last, builds, first_html>>

\* HTMLNode.from_dict(input, attrs_mapper=mapper) is called and runs up to
\* generate_children
FromDictCall ==
    /\ pc = "start"
    /\ LET result == FromDictEnter(input, mapper, 0)
       IN  IF result.ok
           THEN /\ stack' = <<result.value>>
                /\ pc' = "running"
                /\ UNCHANGED <<input, mapper, heap, root, outcome, ops, rendered, html,
                               last, builds, first_html>>
           ELSE Fail(result)

\* one iteration of the loop of generate_children in the innermost
\* from_dict: a dictionary is given to from_dict one level deeper, a string
\* is sanitized and kept
GenerateChild ==
    /\ pc = "running"
    /\ stack[Len(stack)].todo # <<>>
    /\ LET top == stack[Len(stack)]
           child_data == Head(top.todo)
           rest == [stack EXCEPT ![Len(stack)].todo = Tail(top.todo)]
       IN  IF child_data.t = "dict"
           THEN LET result == FromDictEnter(child_data, PyNone, top.depth + 1)
                IN  IF result.ok
                    THEN /\ stack' = Append(rest, result.value)
                         /\ UNCHANGED <<input, mapper, heap, root, outcome, pc, ops,
                                        rendered, html, last, builds,
                                        first_html>>
                    ELSE Fail(result)
           ELSE /\ stack' = [rest EXCEPT ![Len(stack)].children_nodes =
                                 GenerateTextChild(child_data, top.children_nodes)]
                /\ UNCHANGED <<input, mapper, heap, root, outcome, pc, ops,
                               rendered, html, last, builds, first_html>>

\* the loop of generate_children is over: the innermost from_dict makes its
\* node and returns it to the loop of its caller, or to the caller of
\* from_dict
FromDictReturn ==
    /\ pc = "running"
    /\ stack[Len(stack)].todo = <<>>
    /\ LET top == stack[Len(stack)]
           ref == Len(heap) + 1
           callers == SubSeq(stack, 1, Len(stack) - 1)
       IN  /\ heap' = Append(heap, FrameNode(top, ref))
           /\ IF callers = <<>>
              THEN /\ stack' = <<>>
                   /\ root' = ref
                   /\ pc' = "built"
              ELSE /\ stack' = [callers EXCEPT ![Len(callers)].children_nodes =
                                    Append(@, NodeChild(ref))]
                   /\ UNCHANGED <<root, pc>>
    /\ UNCHANGED <<input, mapper, outcome, ops, rendered, html, last, builds, first_html>>

\* the nodes the model changes: the root, its node children, and the nodes
\* added since
Targets ==
    ({root} \cup {c.ref : c \in {heap[root].children[i] :
                                    i \in 1..Len(heap[root].children)}}
            \cup {r \in 1..Len(heap) : r > root}) \ {0}

\* a new node without attributes and children, as HTMLNode(...) makes it
NewNode(tag_name, n) ==
    HTMLNodeInit(tag_name, AttributesInit(<<>>, tag_name),
                 TagValues(tag_name).self_closed,
                 InlineStyleAttributesInit(<<>>), <<>>, DEFAULT, n)

\* what add_child is given: a string, a value of another type, or a new node
AddChildArguments ==
    { [t |-> "str", tag |-> <<>>, v |-> <<"h","i">>],
      [t |-> "str", tag |-> <<>>, v |-> <<"<","i",">","&">>],
      [t |-> "int", tag |-> <<>>, v |-> <<>>],
      [t |-> "HTMLNode", tag |-> <<"p">>, v |-> <<>>],
      [t |-> "HTMLNode", tag |-> <<"b","r">>, v |-> <<>>] }

\* a call on the tree is over: the texts rendered before it are out of date
Called ==
    /\ ops' = ops + 1
    /\ rendered' = 0
    /\ html' = <<>>
    /\ UNCHANGED <<input, mapper, stack, root, pc, builds, first_html>>

\* h[parent].children.add_child(child_node), h the heap with the argument
AddChildValue(parent, h, child_node) ==
    LET result == ChildrenAddChild(h[parent].children, child_node)
    IN  /\ outcome' = [ok |-> result.ok, exc |-> result.exc, msg |-> result.msg]
        /\ heap' = IF result.ok
                   THEN [h EXCEPT ![parent].children = result.value]
                   ELSE h
        /\ last' = Call("add_child", parent, <<child_node>>,
                        h[parent].children, h[parent].node_id)
        /\ Called

\* heap[parent].children.add_child(child_node), child_node made for the call
AddChild(parent, arg) ==
    /\ pc = "built"
    /\ ops < MaxOps
    /\ parent \in Targets
    /\ LET h == IF arg.t = "HTMLNode"
                THEN Append(heap, NewNode(arg.tag, Len(heap) + 1))
                ELSE heap
           child_node == IF arg.t = "HTMLNode" THEN NodeChild(Len(h))
                         ELSE [t |-> arg.t, ref |-> 0, v |-> arg.v]
       IN  AddChildValue(parent, h, child_node)

\* html = to_html(heap[ref])
ToHtmlCall(ref) ==
    /\ pc = "built"
    /\ ref \in 1..Len(heap)
    /\ html' = ToHtml(heap, ref)
    /\ rendered' = ref
    /\ outcome' = NoOutcome
    /\ UNCHANGED <<input, mapper, stack, heap, root, pc, ops, last, builds, first_html>>

\* the caller keeps the text to_html returned for the tree and calls
\* from_dict on the same input again; the objects of the earlier tree stay
\* where they are
FromDictAgain ==
    /\ pc = "built"
    /\ ops = 0
    /\ rendered = root
    /\ builds < MaxRebuilds
    /\ first_html' = IF builds = 0 THEN html ELSE first_html
    /\ builds' = builds + 1
    /\ pc' = "start"
    /\ root' = 0
    /\ rendered' = 0
    /\ html' = <<>>
    /\ UNCHANGED <<input, mapper, stack, heap, outcome, ops, last>>

Next ==
    \/ FromDictCall
    \/ GenerateChild
    \/ FromDictReturn
    \/ \E parent \in 1..Len(heap), arg \in AddChildArguments :
           AddChild(parent, arg)
    \/ \E ref \in 1..Len(heap) : ToHtmlCall(ref)
    \/ FromDictAgain

Spec == Init /\ [][Next]_vars

NextFromDict == FromDictCall \/ GenerateChild \/ FromDictReturn

SpecFromDict == InitFromDict /\ [][NextFromDict]_vars

(***************************************************************************)
(* The state machine of the container: one call of from_dict, then calls   *)
(* of the methods of Children, of Attributes.update_attribute and of       *)
(* HTMLNode.update_node_id on the nodes of the tree.                       *)
(***************************************************************************)
TextX == PyStr(<<"x">>)

\* trees with two children of the same id attribute, a text child equal to
\* that id, and children of several tags
MutateInputs ==
    { NodeDict(Present(PyStr(DIV)), Absent,
               Present(PyList(<<ParagraphWithText, TextX, ParagraphWithText,
                                LeafImg>>))),
      NodeDict(Present(PyStr(DIV)),
               Present(PyDict(<< <<ID, PyStr(<<"x">>)>> >>)),
               Present(PyList(<<TextX, LeafP, TextMarkup>>))),
      NodeDict(Present(PyStr(DIV)), Absent, Absent) }

InitMutate == input \in MutateInputs /\ Start

\* the node children of the root: nodes without node children
Attachable ==
    IF pc # "built" THEN {}
    ELSE {heap[root].children[i].ref :
             i \in {j \in 1..Len(heap[root].children) :
                       heap[root].children[j].t = "HTMLNode"}}

\* what add_child and add_children are given: strings, a value of another
\* type, nodes that are children of the root already
ChildValues ==
    {TextChild(<<"h","i">>), TextChild(<<"<","i",">","&">>),
     [t |-> "int", ref |-> 0, v |-> <<>>]}
        \cup {NodeChild(r) : r \in Attachable}

\* what add_child is given: those values, and the node it is called on
AddChildValues == ChildValues \cup {NodeChild(root)}

NewChildrenChoices ==
    { <<>>,
      <<TextChild(<<"h","i">>), TextChild(<<"<","i",">","&">>)>>,
      <<TextChild(<<"h","i">>), [t |-> "int", ref |-> 0, v |-> <<>>],
        TextChild(<<"x">>)>> }
        \cup {<<NodeChild(r), TextChild(<<"x">>), NodeChild(r)>> : r \in Attachable}

\* the identifiers remove_child is given: the id attributes of the inputs,
\* the text of a child, the node_id of every node
IdChoices ==
    {<<"x">>, <<"y">>, <<"h","i">>} \cup {heap[r].node_id : r \in 1..Len(heap)}

\* the values update_attribute gives to the id attribute
IdValues == {<<"x">>, <<"y">>}

CanMutate == pc = "built" /\ ops < MaxMutations

\* heap[parent].children.add_child(child_node)
AddChildExisting(parent, child_node) ==
    /\ CanMutate
    /\ AddChildValue(parent, heap, child_node)

\* heap[parent].children.add_children(new_children)
AddChildren(parent, new_children) ==
    /\ CanMutate
    /\ heap' = [heap EXCEPT ![parent].children =
                    ChildrenAddChildren(@, new_children)]
    /\ outcome' = NoOutcome
    /\ last' = Call("add_children", parent, new_children,
                    heap[parent].children, heap[parent].node_id)
    /\ Called

\* heap[parent].children.remove_child(child_node_id)
RemoveChild(parent, child_node_id) ==
    /\ CanMutate
    /\ heap' = [heap EXCEPT ![parent].children =
                    ChildrenRemoveChild(heap, @, child_node_id)]
    /\ outcome' = NoOutcome
    /\ last' = Call("remove_child", parent, <<child_node_id>>,
                    heap[parent].children, heap[parent].node_id)
    /\ Called

\* heap[parent].children.remove_children()
RemoveChildren(parent) ==
    /\ CanMutate
    /\ heap' = [heap EXCEPT ![parent].children = ChildrenRemoveChildren(@)]
    /\ outcome' = NoOutcome
    /\ last' = Call("remove_children", parent, <<>>,
                    heap[parent].children, heap[parent].node_id)
    /\ Called

\* heap[ref].attributes.update_attribute("id", new_value)
UpdateAttribute(ref, new_value) ==
    /\ CanMutate
    /\ heap' = [heap EXCEPT ![ref].attributes =
                    AttributesUpdateAttribute(@, ID, new_value)]
    /\ outcome' = NoOutcome
    /\ last' = Call("update_attribute", ref, <<new_value>>,
                    heap[ref].children, heap[ref].node_id)
    /\ Called

\* heap[ref].update_node_id()
UpdateNodeId(ref) ==
    /\ CanMutate
    /\ heap' = [heap EXCEPT ![ref] = HTMLNodeUpdateNodeId(@, 0 - (ops + 1))]
    /\ outcome' = NoOutcome
    /\ last' = Call("update_node_id", ref, <<>>,
                    heap[ref].children, heap[ref].node_id)
    /\ Called

NextMutate ==
    \/ FromDictCall
    \/ GenerateChild
    \/ FromDictReturn
    \/ \E child_node \in AddChildValues : AddChildExisting(root, child_node)
    \/ \E new_children \in NewChildrenChoices : AddChildren(root, new_children)
    \/ \E child_node_id \in IdChoices : RemoveChild(root, child_node_id)
    \/ RemoveChildren(root)
    \/ \E ref \in 1..Len(heap), new_value \in IdValues :
           UpdateAttribute(ref, new_value)
    \/ \E ref \in 1..Len(heap) : UpdateNodeId(ref)

SpecMutate == InitMutate /\ [][NextMutate]_vars

(***************************************************************************)
(* The state machine of the styles and the attributes: one call of         *)
(* from_dict, then calls of the methods of InlineStyleAttributes and of    *)
(* update_attribute and clean_attributes on the root, and of to_html.      *)
(***************************************************************************)
COLOR == <<"c","o","l","o","r">>

\* style maps with names to trim and to lowercase, values to trim, values
\* that hold a pattern in lower and upper case, and values that clean to
\* nothing
StyleMaps ==
    { << <<COLOR, PyStr(<<"r","e","d">>)>> >>,
      << <<<<" ","C","o","l","o","r"," ">>, PyStr(<<" ","r","e","d","\t">>)>>,
         <<<<"w">>, PyInt(3)>>,
         <<<<"m">>, PyStr(<<"0"," ","a">>)>> >>,
      << <<<<"a">>, PyStr(<<"u","(","J","a","v","a","S","c","r","i","p","t",":",")">>)>>,
         <<COLOR, PyStr(<<"r","e","d">>)>>,
         <<<<"b">>, PyStr(<<"e","x","p","r","e","s","s","i","o","n","(","1",")">>)>>,
         <<<<"c">>, PyStr(<<" ","<","S","C","R","I","P","T",">">>)>>,
         <<<<"d">>, PyNone>>,
         <<<<"e">>, PyStr(<<" "," ">>)>>,
         <<<<"W">>, PyStr(<<"1">>)>> >>,
      << <<COLOR, PyStr(<<"r","e","d">>)>>,
         <<<<"C","O","L","O","R">>, PyStr(<<"j","a","v","a","s","c","r","i","p","t",":">>)>> >> }

\* the inputs whose styles and attributes are then changed
StyleInputs ==
    {NodeDict(Present(PyStr(DIV)), Absent, Absent),
     NodeDict(Present(PyStr(IMG)),
              Present(PyDict(<< <<CLASS, PyStr(<<"c">>)>>,
                                <<TITLE, PyStr(<<"a"," ","b">>)>> >>)),
              Absent)}
        \cup {NodeDict(Present(PyStr(t)),
                       Present(PyDict(<< <<ID, PyStr(<<"x">>)>>,
                                         <<STYLE, PyDict(m)>>,
                                         <<CLASS, PyStr(<<"c">>)>> >>)),
                       Present(PyList(<<TextHi>>))) :
                 t \in {DIV, IMG}, m \in StyleMaps}
        \cup {NodeDict(Present(PyStr(DIV)),
                       Present(PyDict(<< <<STYLE, PyDict(m)>> >>)),
                       Present(PyList(<<LeafP>>))) :
                 m \in {n \in StyleMaps : Len(n) = 3}}

InitAttrs == input \in StyleInputs /\ Start

\* the property names and the values update_attr and remove_attr are given
StyleNames == {<<" ","C","o","l","o","r"," ">>, <<"M">>}

StyleValues ==
    {PyStr(<<" ","B","l","u","e"," ">>),
     PyStr(<<"J","A","V","A","s","c","r","i","p","t",":","x">>),
     PyStr(<<" ">>), PyNone, PyInt(3)}

\* the attribute names and the values update_attribute is given
AttributeNames == {CLASS, HREF}

AttributeValues == {<<"n">>, <<"c">>}

CanCall == pc = "built" /\ ops < MaxAttrCalls

\* heap[ref].inline_styles.update_attr(attribute_name, value, create_new)
UpdateAttr(ref, attribute_name, value, create_new) ==
    /\ CanCall
    /\ heap' = [heap EXCEPT ![ref].inline_styles =
                    StylesUpdateAttr(@, attribute_name, value, create_new)]
    /\ outcome' = NoOutcome
    /\ last' = Call("update_attr", ref, <<attribute_name, value, create_new>>,
                    heap[ref].inline_styles, heap[ref].node_id)
    /\ Called

\* heap[ref].inline_styles.remove_attr(attribute_name)
RemoveAttr(ref, attribute_name) ==
    /\ CanCall
    /\ heap' = [heap EXCEPT ![ref].inline_styles =
                    StylesRemoveAttr(@, attribute_name)]
    /\ outcome' = NoOutcome
    /\ last' = Call("remove_attr", ref, <<attribute_name>>,
                    heap[ref].inline_styles, heap[ref].node_id)
    /\ Called

\* heap[ref].inline_styles.remove_attrs()
RemoveAttrs(ref) ==
    /\ CanCall
    /\ heap' = [heap EXCEPT ![ref].inline_styles = StylesRemoveAttrs(@)]
    /\ outcome' = NoOutcome
    /\ last' = Call("remove_attrs", ref, <<>>,
                    heap[ref].inline_styles, heap[ref].node_id)
    /\ Called

\* update_attribute(attribute_name, new_value, create_new) on the attributes
\* of heap[ref]
UpdateAttributeOf(ref, attribute_name, new_value, create_new) ==
    /\ CanCall
    /\ heap' = [heap EXCEPT ![ref].attributes =
                    NodeUpdateAttribute(@, attribute_name, new_value, create_new)]
    /\ outcome' = NoOutcome
    /\ last' = Call("update_attribute", ref,
                    <<attribute_name, new_value, create_new>>,
                    heap[ref].attributes, heap[ref].node_id)
    /\ Called

\* clean_attributes() on the attributes of heap[ref]
CleanAttributesOf(ref) ==
    /\ CanCall
    /\ heap' = [heap EXCEPT ![ref].attributes = NodeCleanAttributes(@)]
    /\ outcome' = NoOutcome
    /\ last' = Call("clean_attributes", ref, <<>>,
                    heap[ref].attributes, heap[ref].node_id)
    /\ Called

NextAttrs ==
    \/ FromDictCall
    \/ GenerateChild
    \/ FromDictReturn
    \/ \E attribute_name \in StyleNames, value \in StyleValues,
          create_new \in BOOLEAN :
           UpdateAttr(root, attribute_name, value, create_new)
    \/ \E attribute_name \in StyleNames : RemoveAttr(root, attribute_name)
    \/ RemoveAttrs(root)
    \/ \E attribute_name \in AttributeNames, new_value \in AttributeValues,
          create_new \in BOOLEAN :
           UpdateAttributeOf(root, attribute_name, new_value, create_new)
    \/ CleanAttributesOf(root)
    \/ \E ref \in 1..Len(heap) : ToHtmlCall(ref)

SpecAttrs == InitAttrs /\ [][NextAttrs]_vars

(***************************************************************************)
(* What the properties say of an input: the shape of its dictionaries.     *)
(***************************************************************************)
\* the call of from_dict on the input is over
Finished == pc \in {"built", "failed"}

\* the entries of the children field of the dictionary d, none when the
\* field is absent or no sequence
ChildEntries(d) ==
    LET children == Get(d, "children", PyTuple(<<>>))
    IN  IF children.t \in {"list", "tuple"} THEN children.v ELSE <<>>

\* the entries of the children field of d that are dictionaries
DictEntries(d) ==
    LET entries == ChildEntries(d)
    IN  {entries[i] : i \in {j \in 1..Len(entries) : entries[j].t = "dict"}}

Largest(S) == CHOOSE m \in S : \A n \in S : n <= m

\* the depth, counted from d at 0, of the deepest dictionary under d
RECURSIVE DeepestDict(_)
DeepestDict(d) ==
    IF d.wraps > 0 THEN d.wraps + DeepestDict([d EXCEPT !.wraps = 0])
    ELSE IF DictEntries(d) = {} THEN 0
    ELSE Largest({1 + DeepestDict(c) : c \in DictEntries(d)})

\* the dictionaries of the tree of d other than the enclosing dictionaries
\* of a chain, which are all {"tag_name": "div", "children": [...]}
RECURSIVE AllDicts(_)
AllDicts(d) ==
    IF d.wraps > 0 THEN AllDicts([d EXCEPT !.wraps = 0])
    ELSE {d} \cup UNION {AllDicts(c) : c \in DictEntries(d)}

\* the number of dictionaries in the tree of d
RECURSIVE CountDicts(_)
CountDicts(d) ==
    IF d.wraps > 0 THEN d.wraps + CountDicts([d EXCEPT !.wraps = 0])
    ELSE LET entries == ChildEntries(d)
             count[i \in 0..Len(entries)] ==
                 IF i = 0 THEN 0
                 ELSE count[i - 1]
                          + (IF entries[i].t = "dict"
                             THEN CountDicts(entries[i]) ELSE 0)
         IN  1 + count[Len(entries)]

\* a key or a tag name after trimming and lowercasing
Normalized(s) == Lower(Strip(s))

CatalogNames == {e.name : e \in HTML_TAGS}

\* the raw attributes of the dictionary d, none when absent or no mapping
RawAttributes(d) ==
    LET attributes == Get(d, "attributes", PyDict(<<>>))
    IN  IF attributes.t = "dict" THEN attributes.v ELSE <<>>

\* the positions of the raw attributes whose key is style after trimming
\* and lowercasing
StyleEntries(raw) == {i \in 1..Len(raw) : Normalized(raw[i][1]) = STYLE}

\* the tag name of d is a string that names a tag of the catalog
TagOk(d) ==
    /\ HasKey(d, "tag_name")
    /\ Get(d, "tag_name", PyNone).t = "str"
    /\ Normalized(Get(d, "tag_name", PyNone).v) \in CatalogNames

\* the attributes of d are absent or a mapping, every style entry of which
\* is a mapping
AttributesOk(d) ==
    /\ Get(d, "attributes", PyDict(<<>>)).t = "dict"
    /\ \A i \in StyleEntries(RawAttributes(d)) :
           RawAttributes(d)[i][2].t = "dict"

\* the children field of d is absent, a list or a tuple
ChildrenOk(d) == Get(d, "children", PyTuple(<<>>)).t \in {"list", "tuple"}

\* every step of from_dict other than the depth check passes on d
ValidDict(d) == TagOk(d) /\ AttributesOk(d) /\ ChildrenOk(d)

\* every dictionary of the tree of d at a depth up to the ceiling is valid,
\* d being at the given depth
RECURSIVE ValidDownToCeiling(_, _)
ValidDownToCeiling(d, depth) ==
    IF depth > MAX_RECURSION_DEPTH THEN TRUE
    ELSE IF d.wraps > 0
    THEN ValidDownToCeiling([d EXCEPT !.wraps = 0], depth + d.wraps)
    ELSE /\ ValidDict(d)
         /\ \A c \in DictEntries(d) : ValidDownToCeiling(c, depth + 1)

\* the exception is the SecurityError of the depth check
IsRecursionDepthError ==
    /\ pc = "failed"
    /\ outcome.exc = "SecurityError"
    /\ outcome.msg.text = "Maximum recursion depth ({}) exceeded. Possible DoS attack or malformed data."
    /\ outcome.msg.arg = <<ToString(MAX_RECURSION_DEPTH)>>

\* from_dict returned the tree of the input: one node for each dictionary,
\* the root made last
ReturnedTree ==
    /\ pc = "built"
    /\ outcome.ok
    /\ root = Len(heap)
    /\ Len(heap) = CountDicts(input)

(***************************************************************************)
(* C1: the recursion ceiling.                                              *)
(***************************************************************************)
\* C1, as stated: every input that contains a dictionary at a depth greater
\* than 100 makes from_dict raise the SecurityError that names the recursion
\* depth, and every otherwise valid input whose deepest dictionary is at
\* depth exactly 100 is built into its tree.
C1_DeepInputRaisesDepthError ==
    Finished =>
        /\ DeepestDict(input) > MAX_RECURSION_DEPTH => IsRecursionDepthError
        /\ (DeepestDict(input) = MAX_RECURSION_DEPTH
                /\ ValidDownToCeiling(input, 0)) => ReturnedTree

\* C1, amended: every input that contains a dictionary at a depth greater
\* than 100 makes from_dict fail; the failure is the SecurityError that names
\* the recursion depth whenever every dictionary at a depth up to 100 is
\* valid (a dictionary with a fault of its own that is visited first raises
\* its own error instead); and every valid input whose deepest dictionary is
\* at depth exactly 100 is built into its tree.
C1_DeepValidInputRaisesDepthError ==
    Finished =>
        /\ DeepestDict(input) > MAX_RECURSION_DEPTH => pc = "failed"
        /\ (DeepestDict(input) > MAX_RECURSION_DEPTH
                /\ ValidDownToCeiling(input, 0)) => IsRecursionDepthError
        /\ (DeepestDict(input) = MAX_RECURSION_DEPTH
                /\ ValidDownToCeiling(input, 0)) => ReturnedTree

\* a chain whose innermost dictionary is one level beyond the ceiling, valid
\* down to the ceiling, has raised the depth error
C1_Witness ==
    /\ DeepestDict(input) = MAX_RECURSION_DEPTH + 1
    /\ ValidDownToCeiling(input, 0)
    /\ IsRecursionDepthError

\* a chain whose innermost dictionary is at the ceiling has been built
C1_WitnessAtCeiling ==
    /\ DeepestDict(input) = MAX_RECURSION_DEPTH
    /\ ValidDownToCeiling(input, 0)
    /\ ReturnedTree

(***************************************************************************)
(* C2: denylisted event attributes.                                        *)
(***************************************************************************)
\* the event attributes of the denylist, by name
EventAttributeNames ==
    {<<"o","n">> \o name : name \in
        { <<"c","l","i","c","k">>, <<"l","o","a","d">>, <<"e","r","r","o","r">>,
          <<"m","o","u","s","e","o","v","e","r">>,
          <<"m","o","u","s","e","o","u","t">>,
          <<"k","e","y","d","o","w","n">>, <<"k","e","y","u","p">>,
          <<"k","e","y","p","r","e","s","s">>, <<"f","o","c","u","s">>,
          <<"b","l","u","r">>, <<"c","h","a","n","g","e">>,
          <<"s","u","b","m","i","t">>, <<"r","e","s","e","t">>,
          <<"d","b","l","c","l","i","c","k">>,
          <<"c","o","n","t","e","x","t","m","e","n","u">>,
          <<"i","n","p","u","t">>, <<"s","e","l","e","c","t">>,
          <<"d","r","a","g">>, <<"d","r","o","p">>,
          <<"s","c","r","o","l","l">> }}

\* C2: when the raw attribute map of the input has a key that after trimming
\* and lowercasing is a denylisted event attribute, the attribute map of the
\* built node has that key neither as written nor normalized, whatever its
\* value and the other attributes; and no node of a built tree has such a key.
C2_EventAttributesNeverKept ==
    pc = "built" =>
        /\ \A i \in 1..Len(RawAttributes(input)) :
               LET key == RawAttributes(input)[i][1]
               IN  Normalized(key) \in EventAttributeNames =>
                       /\ ~DictHas(heap[root].attributes, key)
                       /\ ~DictHas(heap[root].attributes, Normalized(key))
        /\ \A n \in 1..Len(heap) :
               \A key \in DictKeys(heap[n].attributes) :
                   Normalized(key) \notin EventAttributeNames

\* a node is built of a map with a denylisted key written padded and in upper
\* case, and keeps another attribute of the map
C2_Witness ==
    /\ pc = "built"
    /\ \E i \in 1..Len(RawAttributes(input)) :
           LET key == RawAttributes(input)[i][1]
           IN  /\ Normalized(key) \in EventAttributeNames
               /\ key # Normalized(key)
    /\ DictHas(heap[root].attributes, CLASS)

(***************************************************************************)
(* C3: dangerous protocols in attribute values.                            *)
(***************************************************************************)
ProtocolNames ==
    { <<"j","a","v","a","s","c","r","i","p","t",":">>,
      <<"d","a","t","a",":">>,
      <<"v","b","s","c","r","i","p","t",":">>,
      <<"f","i","l","e",":">> }

\* value begins, compared case-insensitively, with a dangerous protocol
BeginsWithProtocol(value) ==
    \E p \in ProtocolNames :
        /\ Len(value) >= Len(p)
        /\ \A i \in 1..Len(p) : LowerChar(value[i]) = p[i]

\* C3: a raw attribute of the input whose value is a string that begins,
\* compared case-insensitively, with javascript:, data:, vbscript: or file:
\* is dropped: the built node has no attribute of its name, unless another
\* raw entry of the same normalized name supplies a harmless value, which is
\* then the value kept; whatever the length of the dangerous value, nothing
\* of it is kept, and no attribute of a built tree begins with a protocol.
C3_DangerousValuesDropped ==
    pc = "built" =>
        LET raw == RawAttributes(input)
            attributes == heap[root].attributes
        IN  /\ \A i \in 1..Len(raw) :
                   (raw[i][2].t = "str" /\ BeginsWithProtocol(raw[i][2].v)) =>
                       LET key == Normalized(raw[i][1])
                       IN  DictHas(attributes, key) =>
                               \E j \in (1..Len(raw)) \ {i} :
                                   /\ Normalized(raw[j][1]) = key
                                   /\ raw[j][2].t = "str"
                                   /\ ~BeginsWithProtocol(raw[j][2].v)
                                   /\ DictGet(attributes, key) =
                                          Truncate(raw[j][2].v,
                                                   MAX_ATTRIBUTE_VALUE_LENGTH)
            /\ \A n \in 1..Len(heap) :
                   \A key \in DictKeys(heap[n].attributes) :
                       ~BeginsWithProtocol(DictGet(heap[n].attributes, key))

\* a node is built of a map with a value longer than 1000 characters that
\* begins with a protocol written in upper case: the attribute is absent and
\* another attribute of the map is kept
C3_Witness ==
    /\ pc = "built"
    /\ \E i \in 1..Len(RawAttributes(input)) :
           LET entry == RawAttributes(input)[i]
           IN  /\ entry[2].t = "str"
               /\ BeginsWithProtocol(entry[2].v)
               /\ entry[2].v # Lower(entry[2].v)
               /\ Len(entry[2].v) > MAX_ATTRIBUTE_VALUE_LENGTH
               /\ ~DictHas(heap[root].attributes, Normalized(entry[1]))
    /\ DictHas(heap[root].attributes, CLASS)

(***************************************************************************)
(* C4, C5: tag names.                                                      *)
(***************************************************************************)
\* the tag name of the input is a string
TagIsString ==
    HasKey(input, "tag_name") /\ Get(input, "tag_name", PyNone).t = "str"

\* the tag name of the input as written
RawTag == Get(input, "tag_name", PyNone).v

\* s matches ^[a-z][a-z0-9-]*$ over its whole length
FullyMatchesTagNamePattern(s) ==
    /\ s # <<>>
    /\ s[1] \in LowerLetters
    /\ \A i \in 2..Len(s) : s[i] \in LowerLetters \cup Digits \cup {"-"}

\* C4: a string tag name that is absent from the catalog after trimming and
\* lowercasing makes from_dict fail with SecurityError, with no other kind of
\* error, and no node is returned.
C4_UnknownTagRaisesSecurityError ==
    (Finished /\ TagIsString /\ Normalized(RawTag) \notin CatalogNames) =>
        /\ pc = "failed"
        /\ outcome.exc = "SecurityError"

\* C5: a string tag name that after trimming and lowercasing does not match
\* ^[a-z][a-z0-9-]*$ over its whole length, or is longer than 50 characters,
\* makes from_dict raise SecurityError with a message that holds the tag name.
C5_MalformedTagRaisesSecurityErrorNamingTag ==
    (Finished /\ TagIsString
        /\ (\/ ~FullyMatchesTagNamePattern(Normalized(RawTag))
            \/ Len(Normalized(RawTag)) > MAX_TAG_NAME_LENGTH)) =>
        /\ pc = "failed"
        /\ outcome.exc = "SecurityError"
        /\ outcome.msg.arg \in {RawTag, Normalized(RawTag)}

(***************************************************************************)
(* C6: the style entry.                                                    *)
(***************************************************************************)
\* C6: when the raw attributes of the input have a style entry (a key equal
\* to style after trimming and lowercasing) whose value is no mapping,
\* from_dict fails and returns no node, and for a tag name that passes its
\* checks the failure is the ValueError "Style attribute must be a
\* dictionary": the entry is never silently dropped.
C6_NonMappingStyleFails ==
    (Finished
        /\ \E i \in StyleEntries(RawAttributes(input)) :
               RawAttributes(input)[i][2].t # "dict") =>
        /\ pc = "failed"
        /\ TagOk(input) =>
               /\ outcome.exc = "ValueError"
               /\ outcome.msg.text = "Style attribute must be a dictionary"

(***************************************************************************)
(* C7: the children field.                                                 *)
(***************************************************************************)
\* the exception is the TypeError of the check of the children field
IsChildrenTypeError ==
    /\ pc = "failed"
    /\ outcome.exc = "TypeError"
    /\ outcome.msg.text = "Children must be an iterable, got {}"

\* C7, as stated: a children field of the input that is present but neither
\* a list nor a tuple makes from_dict fail with a type error, and an absent
\* children key yields a node with an empty children sequence.
C7_BadChildrenFieldRaisesTypeError ==
    Finished =>
        /\ ~ChildrenOk(input) => (pc = "failed" /\ outcome.exc = "TypeError")
        /\ (~HasKey(input, "children") /\ TagOk(input) /\ AttributesOk(input))
               => (ReturnedTree /\ heap[root].children = <<>>)

\* C7, amended: a dictionary whose children field is present but neither a
\* list nor a tuple makes from_dict fail; the failure is the TypeError of
\* the children field whenever the tag name and the attributes of that
\* dictionary pass their own steps and every other dictionary is valid (a
\* step that fails earlier raises its own error instead); and an absent
\* children key yields a node with an empty children sequence.
C7_BadChildrenFieldFails ==
    Finished =>
        /\ (\E d \in AllDicts(input) : ~ChildrenOk(d)) => pc = "failed"
        /\ \A d \in AllDicts(input) :
               (/\ ~ChildrenOk(d)
                /\ TagOk(d)
                /\ AttributesOk(d)
                /\ DeepestDict(input) <= MAX_RECURSION_DEPTH
                /\ \A e \in AllDicts(input) \ {d} : ValidDict(e))
                   => /\ IsChildrenTypeError
                      /\ outcome.msg.arg = <<Get(d, "children", PyNone).t>>
        /\ (~HasKey(input, "children") /\ TagOk(input) /\ AttributesOk(input))
               => (ReturnedTree /\ heap[root].children = <<>>)

\* a dictionary with a valid tag name and valid attributes, whose children
\* field is None, has raised the TypeError of the children field
C7_Witness ==
    /\ HasKey(input, "children")
    /\ Get(input, "children", PyTuple(<<>>)).t = "NoneType"
    /\ TagOk(input)
    /\ RawAttributes(input) # <<>>
    /\ AttributesOk(input)
    /\ IsChildrenTypeError

(***************************************************************************)
(* C8: the entries of the children sequence.                               *)
(***************************************************************************)
\* C8: an entry of the children sequence of the input that is neither a
\* dictionary nor a string makes the call fail with a TypeError, so a built
\* node has as many children as its children sequence has entries.
C8_BadChildEntryFails ==
    Finished =>
        /\ (ValidDict(input)
                /\ \E i \in 1..Len(ChildEntries(input)) :
                       ChildEntries(input)[i].t \notin {"dict", "str"})
               => (pc = "failed" /\ outcome.exc = "TypeError")
        /\ pc = "built" =>
               Len(heap[root].children) = Len(ChildEntries(input))

(***************************************************************************)
(* C9, C10: the serializer.                                                *)
(***************************************************************************)
\* the number of places of s that hold c
Occurrences(s, c) == Cardinality({i \in 1..Len(s) : s[i] = c})

\* C9: the rendering of a node whose is_self_closed_tag flag is true is a
\* single tag: it begins with < and the tag name, ends in />, holds no other
\* < or >, so no closing tag and no rendering of a child, and it is the
\* rendering of the node without its children, whether they were supplied at
\* construction or appended afterwards.
C9_SelfClosedRendersSingleTag ==
    (rendered # 0 /\ heap[rendered].is_self_closed_tag) =>
        LET node == heap[rendered]
            n == Len(html)
        IN  /\ n >= Len(node.tag_name) + 3
            /\ SubSeq(html, 1, Len(node.tag_name) + 1) = <<"<">> \o node.tag_name
            /\ SubSeq(html, n - 1, n) = <<"/", ">">>
            /\ Occurrences(html, "<") = 1
            /\ Occurrences(html, ">") = 1
            /\ html = ToHtml([heap EXCEPT ![rendered].children = <<>>], rendered)

\* a self-closing node with children supplied at construction and a child
\* appended afterwards has been rendered
C9_Witness ==
    /\ rendered # 0
    /\ heap[rendered].is_self_closed_tag
    /\ ops > 0
    /\ Len(heap[rendered].children) >= 2
    /\ \E i \in 1..Len(heap[rendered].children) :
           heap[rendered].children[i].t = "HTMLNode"

\* C10: the rendering of a node that is not self-closing is the opening tag
\* (from < and the tag name to the first >), then the renderings of its
\* children in their stored order, a text child as it is stored and a node
\* child as to_html renders it, then </tag>, with nothing in between.
C10_RenderingIsOpenChildrenClose ==
    (rendered # 0 /\ ~heap[rendered].is_self_closed_tag) =>
        LET node == heap[rendered]
            children ==
                Join([i \in 1..Len(node.children) |->
                         IF node.children[i].t = "str" THEN node.children[i].v
                         ELSE ToHtml(heap, node.children[i].ref)])
            close == <<"<", "/">> \o node.tag_name \o <<">">>
            n == Len(html)
            open == n - Len(children) - Len(close)
        IN  /\ open >= Len(node.tag_name) + 2
            /\ SubSeq(html, 1, Len(node.tag_name) + 1) = <<"<">> \o node.tag_name
            /\ html[open] = ">"
            /\ \A i \in 2..(open - 1) : html[i] \notin {"<", ">"}
            /\ open > Len(node.tag_name) + 2 => html[Len(node.tag_name) + 2] = " "
            /\ SubSeq(html, open + 1, n) = children \o close

\* a node with a text child that holds markup and a node child that has a
\* child of its own has been rendered
C10_Witness ==
    /\ rendered # 0
    /\ ~heap[rendered].is_self_closed_tag
    /\ \E i \in 1..Len(heap[rendered].children) :
           /\ heap[rendered].children[i].t = "str"
           /\ Contains(heap[rendered].children[i].v, <<"<">>)
    /\ \E i \in 1..Len(heap[rendered].children) :
           /\ heap[rendered].children[i].t = "HTMLNode"
           /\ heap[heap[rendered].children[i].ref].children # <<>>

(***************************************************************************)
(* C11: the spaces of a rendered tag.                                      *)
(***************************************************************************)
\* the renderings of the children of the node at ref, one after the other
RenderedChildren(ref) ==
    Join([i \in 1..Len(heap[ref].children) |->
             IF heap[ref].children[i].t = "str" THEN heap[ref].children[i].v
             ELSE ToHtml(heap, heap[ref].children[i].ref)])

\* the attribute list of a node: name='value' pairs, one space between two
AttributeList(node) ==
    JoinWith(<<" ">>,
             [i \in 1..Len(node.attributes) |->
                 node.attributes[i][1] \o <<"=", "'">>
                     \o node.attributes[i][2] \o <<"'">>])

\* C11: the rendering of a node without attributes and without inline styles
\* is <tag/> when the node is self-closing and <tag>, the children, </tag>
\* when it is not, with no space after the tag name; the rendering of a node
\* with attributes and without inline styles is <tag, exactly one space, the
\* attribute list, and at once > or />.
C11_TagSpacing ==
    (rendered # 0 /\ heap[rendered].inline_styles = <<>>) =>
        LET node == heap[rendered]
            tag == node.tag_name
            list == AttributeList(node)
            end == IF node.is_self_closed_tag THEN <<"/", ">">>
                   ELSE <<">">> \o RenderedChildren(rendered)
                            \o <<"<", "/">> \o tag \o <<">">>
        IN  IF node.attributes = <<>>
            THEN html = <<"<">> \o tag \o end
            ELSE /\ html = <<"<">> \o tag \o <<" ">> \o list \o end
                 /\ list[1] # " "
                 /\ list[Len(list)] # " "

\* a self-closing node with two attributes, one with a space in its value,
\* and without inline styles has been rendered
C11_Witness ==
    /\ rendered # 0
    /\ heap[rendered].inline_styles = <<>>
    /\ heap[rendered].is_self_closed_tag
    /\ Len(heap[rendered].attributes) >= 2
    /\ \E i \in 1..Len(heap[rendered].attributes) :
           Contains(heap[rendered].attributes[i][2], <<" ">>)

\* a node that is not self-closing, without attributes and without inline
\* styles and with children, has been rendered
C11_WitnessBare ==
    /\ rendered # 0
    /\ heap[rendered].inline_styles = <<>>
    /\ heap[rendered].attributes = <<>>
    /\ ~heap[rendered].is_self_closed_tag
    /\ heap[rendered].children # <<>>

(***************************************************************************)
(* C12: the same input built and rendered again.                           *)
(***************************************************************************)
\* C12: whenever from_dict has been called again on the same input and the
\* tree it returned has been rendered, unchanged, the text is the text the
\* first tree rendered to: it does not depend on the earlier calls, on the
\* objects they left, or on the generated identifiers.
C12_RenderingIsRepeatable ==
    (builds >= 1 /\ pc = "built" /\ ops = 0 /\ rendered = root) =>
        html = first_html

\* a tree with children and a generated node_id has been built again and
\* rendered to the same text, its node_id another one than that of the
\* earlier tree
C12_Witness ==
    /\ builds >= 1
    /\ pc = "built"
    /\ ops = 0
    /\ rendered = root
    /\ html = first_html
    /\ heap[root].children # <<>>
    /\ ~DictHas(heap[root].attributes, ID)
    /\ \E r \in 1..(root - 1) :
           /\ heap[r].tag_name = heap[root].tag_name
           /\ heap[r].children # <<>>
           /\ heap[r].node_id # heap[root].node_id

(***************************************************************************)
(* C13 .. C19: the Children container and node_id.                         *)
(***************************************************************************)
\* the children now of the node the last call was made on
ChildrenNow == heap[last.target].children

\* the places of the sequence children that hold a node whose node_id is id
MatchingPlaces(children, id) ==
    {i \in 1..Len(children) :
        /\ children[i].t = "HTMLNode"
        /\ heap[children[i].ref].node_id = id}

Smallest(S) == CHOOSE m \in S : \A n \in S : m <= n

\* the sequence without its k-th entry
WithoutPlace(seq, k) == SubSeq(seq, 1, k - 1) \o SubSeq(seq, k + 1, Len(seq))

\* the string entries of a children sequence, in their order
TextEntries(children) == SelectSeq(children, LAMBDA c : c.t = "str")

\* s is t without some of its entries, the others in the order of t
RECURSIVE IsSubsequence(_, _)
IsSubsequence(s, t) ==
    IF s = <<>> THEN TRUE
    ELSE IF t = <<>> THEN FALSE
    ELSE IF Head(s) = Head(t) THEN IsSubsequence(Tail(s), Tail(t))
    ELSE IsSubsequence(s, Tail(t))

IsNodeOrString(child) == child.t \in {"HTMLNode", "str"}

\* C13: after remove_child(id) on a node with at least one node child whose
\* node_id is id, the children are the children before the call without the
\* first such child: one entry is removed and later matching entries remain.
C13_RemoveChildRemovesFirstMatchOnly ==
    last.op = "remove_child" =>
        LET matches == MatchingPlaces(last.before, last.args[1])
        IN  matches # {} =>
                ChildrenNow = WithoutPlace(last.before, Smallest(matches))

\* remove_child was given a node_id that two entries of the children had
C13_SeveralMatches ==
    /\ last.op = "remove_child"
    /\ Cardinality(MatchingPlaces(last.before, last.args[1])) >= 2

\* C14: remove_child(id) does not raise and leaves every string child where
\* it is; when no node child has the node_id id the children are the same
\* entries in the same order, string entries equal to id included.
C14_RemoveChildKeepsTextAndNoMatchIsNoOp ==
    last.op = "remove_child" =>
        /\ outcome.ok
        /\ TextEntries(ChildrenNow) = TextEntries(last.before)
        /\ MatchingPlaces(last.before, last.args[1]) = {} =>
               ChildrenNow = last.before

\* remove_child was given an identifier that no node child has and that a
\* string child is equal to, on a node that has node children too
C14_Witness ==
    /\ last.op = "remove_child"
    /\ MatchingPlaces(last.before, last.args[1]) = {}
    /\ \E i \in 1..Len(last.before) :
           last.before[i].t = "str" /\ last.before[i].v = last.args[1]
    /\ \E i \in 1..Len(last.before) : last.before[i].t = "HTMLNode"
    /\ ChildrenNow = last.before

\* C15: add_child given a value that is neither a node nor a string raises
\* TypeError and the children are as they were before the call; given a node
\* or a string it appends that one entry.
C15_AddChildAppendsOrRaises ==
    last.op = "add_child" =>
        IF IsNodeOrString(last.args[1])
        THEN outcome.ok /\ ChildrenNow = Append(last.before, last.args[1])
        ELSE /\ ~outcome.ok
             /\ outcome.exc = "TypeError"
             /\ ChildrenNow = last.before

\* add_child was given an int on a node that had children
C15_Witness ==
    /\ last.op = "add_child"
    /\ ~IsNodeOrString(last.args[1])
    /\ last.before # <<>>
    /\ outcome.exc = "TypeError"

\* C16: add_children given a sequence with an element that is neither a node
\* nor a string raises TypeError, and after any calls of add_child and
\* add_children every entry of every children sequence is a node or a
\* string.
C16_AddChildrenValidatesEveryElement ==
    /\ (last.op = "add_children"
            /\ \E i \in 1..Len(last.args) : ~IsNodeOrString(last.args[i]))
           => (~outcome.ok /\ outcome.exc = "TypeError")
    /\ pc = "built" =>
           \A r \in 1..Len(heap) : \A i \in 1..Len(heap[r].children) :
               IsNodeOrString(heap[r].children[i])

\* C17: add_child puts the new entry after the existing entries,
\* add_children puts its entries after them in the order given, remove_child
\* keeps the entries that remain in their order, remove_children leaves no
\* entry, and from_dict stores the children in the order of the input.
C17_ChildrenKeepInsertionOrder ==
    /\ (last.op = "add_child" /\ outcome.ok) =>
           ChildrenNow = last.before \o last.args
    /\ last.op = "add_children" => ChildrenNow = last.before \o last.args
    /\ last.op = "remove_child" => IsSubsequence(ChildrenNow, last.before)
    /\ last.op = "remove_children" => ChildrenNow = <<>>
    /\ (pc = "built" /\ ops = 0) =>
           LET entries == ChildEntries(input)
               children == heap[root].children
           IN  /\ Len(children) = Len(entries)
               /\ \A i \in 1..Len(entries) :
                      IF entries[i].t = "str"
                      THEN children[i] = TextChild(SanitizeTextContent(entries[i].v))
                      ELSE /\ children[i].t = "HTMLNode"
                           /\ heap[children[i].ref].tag_name =
                                  Get(entries[i], "tag_name", PyNone).v

\* add_children was given a node, a string and the node again on a node
\* that had several children
C17_Witness ==
    /\ last.op = "add_children"
    /\ Len(last.before) >= 2
    /\ Len(last.args) >= 3
    /\ last.args[1].t = "HTMLNode"
    /\ last.args[2].t = "str"
    /\ ChildrenNow = last.before \o last.args

\* C18: node_id is the id attribute, when there is one, as the node is
\* constructed; after attributes.update_attribute("id", v) the id attribute
\* is v and node_id is what it was before the call; after update_node_id
\* node_id is the id attribute.
C18_NodeIdUpdatedOnDemand ==
    /\ (pc = "built" /\ ops = 0) =>
           \A r \in 1..Len(heap) :
               DictHas(heap[r].attributes, ID) =>
                   heap[r].node_id = DictGet(heap[r].attributes, ID)
    /\ last.op = "update_attribute" =>
           /\ DictGet(heap[last.target].attributes, ID) = last.args[1]
           /\ heap[last.target].node_id = last.node_id
    /\ (last.op = "update_node_id"
            /\ DictHas(heap[last.target].attributes, ID)) =>
           heap[last.target].node_id = DictGet(heap[last.target].attributes, ID)

\* update_node_id was called on a node whose id attribute had been changed
\* from x to y and whose node_id was x still
C18_Witness ==
    /\ last.op = "update_node_id"
    /\ last.node_id = <<"x">>
    /\ heap[last.target].node_id = <<"y">>

\* the id attribute of a node was changed to y and its node_id is x
C18_WitnessStale ==
    /\ last.op = "update_attribute"
    /\ last.args = << <<"y">> >>
    /\ heap[last.target].node_id = <<"x">>

\* C19: no string child of any node holds <, > or &, whatever calls of
\* from_dict, add_child and add_children were made.
C19_TextChildrenAreSanitized ==
    pc = "built" =>
        \A r \in 1..Len(heap) : \A i \in 1..Len(heap[r].children) :
            heap[r].children[i].t = "str" =>
                \A j \in 1..Len(heap[r].children[i].v) :
                    heap[r].children[i].v[j] \notin {"<", ">", "&"}

(***************************************************************************)
(* C20: the length of a stored attribute value.                            *)
(***************************************************************************)
\* the i-th entry of the attribute map raw is a string that begins with no
\* protocol, under a name that the catalog has for the tag and that is no
\* event attribute, and no later entry of that name is one
IsLastKeptEntry(raw, i, tag_name) ==
    LET key == Normalized(raw[i][1])
        kept(j) == /\ Normalized(raw[j][1]) = key
                   /\ raw[j][2].t = "str"
                   /\ ~BeginsWithProtocol(raw[j][2].v)
    IN  /\ kept(i)
        /\ key # STYLE
        /\ key \notin DANGEROUS_ATTRIBUTES
        /\ key \in CombineAllPossibleAttributes(tag_name)
        /\ \A j \in (i + 1)..Len(raw) : ~kept(j)

\* C20: a string attribute value that from_dict keeps is stored as it is
\* given when it has at most 1000 characters and as its first 1000
\* characters when it has more; the attribute is present whatever the
\* length, and no stored value has more than 1000 characters.
C20_LongValuesAreTruncated ==
    pc = "built" =>
        LET raw == RawAttributes(input)
            node == heap[root]
        IN  /\ \A i \in 1..Len(raw) :
                   IsLastKeptEntry(raw, i, node.tag_name) =>
                       LET key == Normalized(raw[i][1])
                           value == raw[i][2].v
                       IN  /\ DictHas(node.attributes, key)
                           /\ DictGet(node.attributes, key) =
                                  IF Len(value) <= 1000 THEN value
                                  ELSE SubSeq(value, 1, 1000)
            /\ \A n \in 1..Len(heap) :
                   \A key \in DictKeys(heap[n].attributes) :
                       Len(DictGet(heap[n].attributes, key)) <= 1000

\* a node is built of a map with a value of 1001 characters whose first,
\* 1000th and last characters differ: the attribute is stored with the
\* first 1000
C20_Witness ==
    /\ pc = "built"
    /\ \E i \in 1..Len(RawAttributes(input)) :
           LET value == RawAttributes(input)[i][2].v
               key == Normalized(RawAttributes(input)[i][1])
           IN  /\ RawAttributes(input)[i][2].t = "str"
               /\ Len(value) = 1001
               /\ value[1000] # value[1001]
               /\ value[1] # value[1000]
               /\ DictHas(heap[root].attributes, key)
               /\ Len(DictGet(heap[root].attributes, key)) = 1000
               /\ DictGet(heap[root].attributes, key)[1000] = value[1000]

\* a node is built of a map with a value of exactly 1000 characters, stored
\* whole
C20_WitnessAtLimit ==
    /\ pc = "built"
    /\ \E i \in 1..Len(RawAttributes(input)) :
           /\ RawAttributes(input)[i][2].t = "str"
           /\ Len(RawAttributes(input)[i][2].v) = 1000
           /\ RawAttributes(input)[i][2].v[1] = " "
           /\ DictGet(heap[root].attributes,
                      Normalized(RawAttributes(input)[i][1])) =
                  RawAttributes(input)[i][2].v

(***************************************************************************)
(* C21: anomalies of single attributes.                                    *)
(***************************************************************************)
\* the i-th entry of the attribute map raw has one of the anomalies: a
\* denylisted key, a key that fails the name pattern from its first
\* character, a value that is no string, a value that begins with a protocol
IsAnomaly(raw, i) ==
    LET key == Normalized(raw[i][1])
    IN  \/ key \in DANGEROUS_ATTRIBUTES
        \/ key = <<>>
        \/ key[1] \notin LowerLetters
        \/ raw[i][2].t # "str"
        \/ BeginsWithProtocol(raw[i][2].v)

\* C21: for a valid tag and valid children, from_dict returns a node for
\* every attribute map whose style entries are mappings; an entry with a
\* denylisted key, a key that fails the name pattern, a value that is no
\* string or a value with a dangerous protocol is absent from the node, and
\* every other entry of a name the catalog has for the tag is present with
\* the value supplied.
C21_AttributeAnomaliesNeverAbort ==
    (Finished /\ ValidDownToCeiling(input, 0)
         /\ DeepestDict(input) <= MAX_RECURSION_DEPTH) =>
        /\ pc = "built"
        /\ LET raw == RawAttributes(input)
               node == heap[root]
           IN  /\ \A i \in 1..Len(raw) :
                      IsLastKeptEntry(raw, i, node.tag_name) =>
                          /\ DictHas(node.attributes, Normalized(raw[i][1]))
                          /\ DictGet(node.attributes, Normalized(raw[i][1])) =
                                 Truncate(raw[i][2].v, MAX_ATTRIBUTE_VALUE_LENGTH)
               /\ \A key \in DictKeys(node.attributes) :
                      \E i \in 1..Len(raw) :
                          /\ ~IsAnomaly(raw, i)
                          /\ Normalized(raw[i][1]) = key
                          /\ DictGet(node.attributes, key) =
                                 Truncate(raw[i][2].v, MAX_ATTRIBUTE_VALUE_LENGTH)

\* a node is built of a map with the four anomalies, a style mapping and two
\* ordinary attributes: it has the two attributes, and nothing else
C21_Witness ==
    /\ pc = "built"
    /\ LET raw == RawAttributes(input)
       IN  /\ \E i \in 1..Len(raw) : Normalized(raw[i][1]) \in DANGEROUS_ATTRIBUTES
           /\ \E i \in 1..Len(raw) : Normalized(raw[i][1])[1] \notin LowerLetters
           /\ \E i \in 1..Len(raw) :
                  raw[i][2].t = "int" /\ Normalized(raw[i][1]) # STYLE
           /\ \E i \in 1..Len(raw) :
                  raw[i][2].t = "str" /\ BeginsWithProtocol(raw[i][2].v)
           /\ StyleEntries(raw) # {}
    /\ DictKeys(heap[root].attributes) = {ID, TITLE}
    /\ DictGet(heap[root].attributes, TITLE) = <<"a"," ","B">>

(***************************************************************************)
(* C22: the shape of the node graph.                                       *)
(***************************************************************************)
\* the nodes that are children of the node at ref
NodeChildrenOf(ref) ==
    {heap[ref].children[i].ref :
        i \in {j \in 1..Len(heap[ref].children) :
                  heap[ref].children[j].t = "HTMLNode"}}

\* the nodes reached from the nodes of S in at most n steps to a child
RECURSIVE ReachedFrom(_, _)
ReachedFrom(S, n) ==
    IF n = 0 THEN S
    ELSE ReachedFrom(S \cup UNION {NodeChildrenOf(r) : r \in S}, n - 1)

DescendantsOf(ref) == ReachedFrom(NodeChildrenOf(ref), Len(heap))

\* C22: after any calls of from_dict, add_child, add_children, remove_child
\* and remove_children no node is at two places of the children of one
\* node, no node is a child of two nodes, and no node is its own
\* descendant.
C22_NodeGraphIsATree ==
    pc = "built" =>
        /\ \A r \in 1..Len(heap) :
               \A i, j \in 1..Len(heap[r].children) :
                   (i # j /\ heap[r].children[i].t = "HTMLNode") =>
                       heap[r].children[i] # heap[r].children[j]
        /\ \A r, q \in 1..Len(heap) :
               r # q => NodeChildrenOf(r) \cap NodeChildrenOf(q) = {}
        /\ \A r \in 1..Len(heap) : r \notin DescendantsOf(r)

\* a node is its own child
C22_Cycle == pc = "built" /\ \E r \in 1..Len(heap) : r \in NodeChildrenOf(r)

\* a node is at two places of the children of one node
C22_Twice ==
    /\ pc = "built"
    /\ \E r \in 1..Len(heap) : \E i, j \in 1..Len(heap[r].children) :
           /\ i # j
           /\ heap[r].children[i].t = "HTMLNode"
           /\ heap[r].children[i] = heap[r].children[j]

(***************************************************************************)
(* C23: the stored inline styles.                                          *)
(***************************************************************************)
\* the string s holds one of javascript:, expression( and <script, in
\* whatever case
HoldsStylePattern(s) ==
    \E p \in {<<"j","a","v","a","s","c","r","i","p","t",":">>,
               <<"e","x","p","r","e","s","s","i","o","n","(">>,
               <<"<","s","c","r","i","p","t">>} : Contains(Lower(s), p)

\* the style map of the attributes of the input, empty when there is none
RawStyles(d) ==
    LET raw == RawAttributes(d)
        places == {i \in 1..Len(raw) : raw[i][1] = STYLE /\ raw[i][2].t = "dict"}
    IN  IF places = {} THEN <<>> ELSE raw[CHOOSE i \in places : TRUE][2].v

\* the value of the i-th entry of the style map m is a string or a number
\* that is not blank and holds no pattern
IsGoodStyle(m, i) ==
    /\ m[i][2].t \in {"str", "int"}
    /\ Strip(Str(m[i][2])) # <<>>
    /\ ~HoldsStylePattern(Str(m[i][2]))

\* C23: after the construction and any calls of update_attr, remove_attr
\* and remove_attrs every stored property name is trimmed and lowercase and
\* every stored value is trimmed, not empty and holds none of javascript:,
\* expression( and <script in whatever case; a property given such a value
\* at construction is absent unless another entry gives it a good value,
\* and the properties with good values are stored, trimmed.
C23_StoredStylesAreClean ==
    pc = "built" =>
        /\ \A r \in 1..Len(heap) :
               \A i \in 1..Len(heap[r].inline_styles) :
                   LET name == heap[r].inline_styles[i][1]
                       value == heap[r].inline_styles[i][2]
                   IN  /\ Strip(name) = name
                       /\ Lower(name) = name
                       /\ value # <<>>
                       /\ Strip(value) = value
                       /\ ~HoldsStylePattern(value)
        /\ ops = 0 =>
               LET m == RawStyles(input)
                   styles == heap[root].inline_styles
               IN  \A i \in 1..Len(m) :
                       LET name == Normalized(m[i][1])
                           later == {j \in (i + 1)..Len(m) :
                                        Normalized(m[j][1]) = name /\ IsGoodStyle(m, j)}
                           any == {j \in 1..Len(m) :
                                      Normalized(m[j][1]) = name /\ IsGoodStyle(m, j)}
                       IN  /\ (IsGoodStyle(m, i) /\ later = {}) =>
                                  /\ DictHas(styles, name)
                                  /\ DictGet(styles, name) = Strip(Str(m[i][2]))
                           /\ any = {} => ~DictHas(styles, name)

\* update_attr was given, for a new property, a value that holds a pattern
\* in upper case, on styles built of a map with such values and good ones
C23_Witness ==
    /\ pc = "built"
    /\ last.op = "update_attr"
    /\ last.args[2].t = "str"
    /\ HoldsStylePattern(last.args[2].v)
    /\ last.args[2].v # Lower(last.args[2].v)
    /\ last.args[3]
    /\ heap[last.target].inline_styles = last.before
    /\ last.before # <<>>
    /\ \E i \in 1..Len(RawStyles(input)) :
           /\ RawStyles(input)[i][2].t = "str"
           /\ HoldsStylePattern(RawStyles(input)[i][2].v)

(***************************************************************************)
(* C24: update_attribute and clean_attributes.                             *)
(***************************************************************************)
\* C24: after update_attribute(name, value, create_new) the attribute name
\* has the value when create_new is true or the attribute existed, and is
\* absent when create_new is false and it did not exist; every other
\* attribute is as before the call; after clean_attributes there is no
\* attribute.
C24_UpdateAttributeFrame ==
    /\ last.op = "update_attribute" =>
           LET name == last.args[1]
               value == last.args[2]
               create_new == last.args[3]
               before == last.before
               now == heap[last.target].attributes
           IN  /\ (create_new \/ DictHas(before, name)) =>
                      DictHas(now, name) /\ DictGet(now, name) = value
               /\ (~create_new /\ ~DictHas(before, name)) => ~DictHas(now, name)
               /\ \A k \in (DictKeys(before) \cup DictKeys(now)) \ {name} :
                      /\ DictHas(before, k)
                      /\ DictHas(now, k)
                      /\ DictGet(now, k) = DictGet(before, k)
    /\ last.op = "clean_attributes" => heap[last.target].attributes = <<>>

\* update_attribute was called with create_new false for an attribute that
\* the node, which has others, did not have
C24_Witness ==
    /\ last.op = "update_attribute"
    /\ ~last.args[3]
    /\ ~DictHas(last.before, last.args[1])
    /\ Len(last.before) >= 2
    /\ heap[last.target].attributes = last.before

\* update_attribute was called with create_new false for an attribute the
\* node had with another value
C24_WitnessExisting ==
    /\ last.op = "update_attribute"
    /\ ~last.args[3]
    /\ DictHas(last.before, last.args[1])
    /\ DictGet(last.before, last.args[1]) # last.args[2]
    /\ DictGet(heap[last.target].attributes, last.args[1]) = last.args[2]

(***************************************************************************)
(* C27: the rendering of a node with inline styles.                        *)
(***************************************************************************)
\* the declarations of the styles: name, colon, space, value, semicolon,
\* one space between two declarations
Declarations(styles) ==
    JoinWith(<<" ">>,
             [i \in 1..Len(styles) |->
                 styles[i][1] \o <<":", " ">> \o styles[i][2] \o <<";">>])

StyleAttribute(styles) ==
    <<"s","t","y","l","e","=","'">> \o Declarations(styles) \o <<"'">>

\* what follows the attributes in the rendering of the node at ref
TagEnd(ref) ==
    IF heap[ref].is_self_closed_tag THEN <<"/", ">">>
    ELSE <<">">> \o RenderedChildren(ref)
             \o <<"<", "/">> \o heap[ref].tag_name \o <<">">>

\* C27 as stated: the rendering of a node with inline styles is <tag, one
\* space, style='p1: v1; p2: v2;' with the declarations in insertion order,
\* one space and the attribute list if there are attributes, and at once >
\* or />.
C27_StyledTagSingleSpaces ==
    (rendered # 0 /\ heap[rendered].inline_styles # <<>>) =>
        LET node == heap[rendered]
        IN  html = <<"<">> \o node.tag_name \o <<" ">>
                       \o StyleAttribute(node.inline_styles)
                       \o (IF node.attributes = <<>> THEN <<>>
                            ELSE <<" ">> \o AttributeList(node))
                       \o TagEnd(rendered)

\* C27 amended: the rendering of a node with inline styles is <tag, one
\* space, style='p1: v1; p2: v2;' with the declarations in insertion order,
\* two spaces, the attribute list if there are attributes, and > or />: two
\* spaces stand before > or /> when there is no attribute.
C27_StyledTagTwoSpacesAfterStyle ==
    (rendered # 0 /\ heap[rendered].inline_styles # <<>>) =>
        LET node == heap[rendered]
        IN  html = <<"<">> \o node.tag_name \o <<" ">>
                       \o StyleAttribute(node.inline_styles)
                       \o <<" ", " ">>
                       \o AttributeList(node)
                       \o TagEnd(rendered)

\* a node with three inline styles, one of them set by update_attr, and
\* with attributes has been rendered
C27_Witness ==
    /\ rendered # 0
    /\ Len(heap[rendered].inline_styles) >= 3
    /\ Len(heap[rendered].attributes) >= 2
    /\ last.op = "update_attr"
    /\ Len(last.before) < Len(heap[rendered].inline_styles)

\* a self-closing node with inline styles and without attributes has been
\* rendered
C27_WitnessNoAttributes ==
    /\ rendered # 0
    /\ heap[rendered].inline_styles # <<>>
    /\ heap[rendered].attributes = <<>>
    /\ heap[rendered].is_self_closed_tag

(***************************************************************************)
(* C25: which failure is reported.                                         *)
(***************************************************************************)
NoFailure == [step |-> "none", arg |-> <<>>]

Failure(step, arg) == [step |-> step, arg |-> arg]

\* the value stored under style by the attribute validation: that of the
\* last entry whose key is style after trimming and lowercasing
StyleValue(d) ==
    LET raw == RawAttributes(d)
    IN  raw[Largest(StyleEntries(raw))][2]

\* the first step, in the order of the claim, that the dictionary d at the
\* given depth fails, with what the message of the failure names; the
\* children are looked at after the steps of d itself, in their order
RECURSIVE ExpectedFailure(_, _)
RECURSIVE FirstFailureIn(_, _)
ExpectedFailure(d, depth) ==
    IF depth > MAX_RECURSION_DEPTH \/ depth + d.wraps > MAX_RECURSION_DEPTH
    THEN Failure("depth ceiling", <<ToString(MAX_RECURSION_DEPTH)>>)
    ELSE IF d.wraps > 0
    THEN ExpectedFailure([d EXCEPT !.wraps = 0], depth + d.wraps)
    ELSE
    LET tag == Get(d, "tag_name", PyNone)
        name == Normalized(tag.v)
        children == Get(d, "children", PyTuple(<<>>))
    IN  IF tag.t # "str" THEN Failure("tag-name type", <<tag.t>>)
        ELSE IF name = <<>> \/ name[1] \notin LowerLetters
        THEN Failure("tag-name pattern", name)
        ELSE IF Len(name) > 50
        THEN Failure("tag-name length", <<ToString(Len(name))>>)
        ELSE IF name \notin CatalogNames
        THEN Failure("catalog membership", tag.v)
        ELSE IF Get(d, "attributes", PyDict(<<>>)).t # "dict"
        THEN Failure("unlisted", <<>>)
        ELSE IF StyleEntries(RawAttributes(d)) # {} /\ StyleValue(d).t # "dict"
        THEN Failure("style value type", <<>>)
        ELSE IF children.t \notin {"list", "tuple"}
        THEN Failure("children field type", <<children.t>>)
        ELSE FirstFailureIn(children.v, depth + 1)

FirstFailureIn(entries, depth) ==
    IF entries = <<>> THEN NoFailure
    ELSE LET first == IF Head(entries).t = "dict"
                      THEN ExpectedFailure(Head(entries), depth)
                      ELSE NoFailure
         IN  IF first # NoFailure THEN first
             ELSE FirstFailureIn(Tail(entries), depth)

\* the step whose failure the exception raised reports
ReportedStep ==
    IF outcome.exc = "SecurityError"
    THEN IF outcome.msg.text = "Tag name too long: {} characters"
         THEN "tag-name length"
         ELSE IF outcome.msg.text = "Tag name contains invalid characters: '{}'. Only alphanumeric characters and hyphens are allowed."
         THEN "tag-name pattern"
         ELSE "depth ceiling"
    ELSE IF outcome.exc = "TypeError"
    THEN IF outcome.msg.text = "Tag name must be a string, got {}"
         THEN "tag-name type"
         ELSE "children field type"
    ELSE IF outcome.exc = "ValueError"
    THEN IF outcome.msg.text = "Style attribute must be a dictionary"
         THEN "style value type"
         ELSE "catalog membership"
    ELSE "unlisted"

C25_WitnessChildren ==
    /\ pc = "failed"
    /\ ReportedStep = "catalog membership"
    /\ TagOk(input)
    /\ Len(ChildEntries(input)) = 2
    /\ ChildEntries(input)[2].t = "dict"
    /\ Get(ChildEntries(input)[2], "tag_name", PyNone).t = "int"
    /\ ChildEntries(input)[1].t = "dict"
    /\ TagOk(ChildEntries(input)[1])

(***************************************************************************)
(* C26: the keys kept by the attribute validation.                         *)
(***************************************************************************)
\* ^[a-z][a-z0-9-_]*$ over the whole of s
MatchesWholeAttributeName(s) ==
    /\ s # <<>>
    /\ s[1] \in LowerLetters
    /\ \A i \in 2..Len(s) : s[i] \in LowerLetters \cup Digits \cup {"-", "_"}

\* C26: every key that __validate_attributes and __clean_attributes keep in
\* an activation of from_dict matches ^[a-z][a-z0-9-_]*$ over its whole
\* length; a key with a valid prefix followed by other characters is dropped.
C26_KeptKeysMatchWholePattern ==
    \A i \in 1..Len(stack) :
        \A j \in 1..Len(stack[i].clean_attrs) :
            MatchesWholeAttributeName(stack[i].clean_attrs[j][1])

(***************************************************************************)
(* from_dict with an attrs_mapper.                                         *)
(***************************************************************************)
\* the dictionary d with the key attrs_map_identifier
WithIdentifier(d, identifier) ==
    [d EXCEPT !.v = [k \in DOMAIN d.v \cup {"attrs_map_identifier"} |->
                        IF k = "attrs_map_identifier" THEN PyStr(identifier)
                        ELSE d.v[k]]]

KEY == <<"k">>

NONE == <<"n","o","n","e">>

\* the tables given as attrs_mapper: None, empty, with and without an entry
\* for default, with a style
Mappers ==
    { PyNone,
      PyDict(<<>>),
      PyDict(<< <<DEFAULT, PyDict(<< <<CLASS, PyStr(<<"m">>)>> >>)>>,
                <<KEY, PyDict(<< <<ID, PyStr(<<"z">>)>> >>)>> >>),
      PyDict(<< <<KEY, PyDict(<< <<TITLE, PyStr(<<"t">>)>>,
                                 <<STYLE, PyDict(<< <<COLOR, PyStr(<<"r","e","d">>)>> >>)>> >>)>> >>) }

\* a dictionary with its identifier absent, with an entry in some table, or
\* with an entry in none
Identified(d) == {d, WithIdentifier(d, KEY), WithIdentifier(d, NONE)}

MapperAttributes ==
    { Absent,
      Present(PyDict(<< <<CLASS, PyStr(<<"c">>)>> >>)),
      Present(PyDict(<< <<TITLE, PyStr(<<"i">>)>>, <<ID, PyStr(<<"x">>)>> >>)) }

MapperLeaves ==
    UNION {Identified(NodeDict(Present(PyStr(<<"p">>)), a, Absent)) :
              a \in MapperAttributes}

MapperChildren ==
    {Absent, Present(PyList(<<TextHi>>))}
        \cup {Present(PyList(<<c>>)) : c \in MapperLeaves}
        \cup {Present(PyList(<<TextHi, c, LeafP>>)) : c \in MapperLeaves}
        \cup {Present(PyList(<<NodeDict(Present(PyStr(DIV)), Absent,
                                        Present(PyList(<<c>>)))>>)) :
                  c \in MapperLeaves}

\* the dictionaries given to from_dict together with an attrs_mapper
MapperInputs ==
    UNION {Identified(NodeDict(Present(PyStr(DIV)), a, c)) :
              a \in MapperAttributes, c \in MapperChildren}

InitMapper == input \in MapperInputs /\ \E m \in Mappers : StartWith(m)

SpecMapper == InitMapper /\ [][NextFromDict]_vars

(***************************************************************************)
(* C28: the attributes of the nodes built with an attrs_mapper.            *)
(***************************************************************************)
\* the dictionaries of the tree d in the order in which from_dict makes
\* their nodes: those of the children, then d
RECURSIVE DictsInOrderOfCreation(_)
RECURSIVE DictsOfEntries(_)
DictsInOrderOfCreation(d) == Append(DictsOfEntries(ChildEntries(d)), d)

DictsOfEntries(entries) ==
    IF entries = <<>> THEN <<>>
    ELSE (IF Head(entries).t = "dict"
          THEN DictsInOrderOfCreation(Head(entries)) ELSE <<>>)
             \o DictsOfEntries(Tail(entries))

\* the identifier of the dictionary d: default when the key is absent
IdentifierOf(d) ==
    IF HasKey(d, "attrs_map_identifier")
    THEN Get(d, "attrs_map_identifier", PyNone).v ELSE DEFAULT

\* the entry of the table for the dictionary d: empty when there is none
MappedAttributes(d) ==
    IF DictHas(mapper.v, IdentifierOf(d))
    THEN DictGet(mapper.v, IdentifierOf(d)).v ELSE <<>>

\* the node made of the dictionary d has the attributes and the styles of
\* its entry of the table and records its identifier
TakesAttributesFromMapper(node, d) ==
    /\ node.attrs_map_identifier = IdentifierOf(d)
    /\ node.attributes =
           AttributesInit(CleanAttributes(ValidateAttributes(MappedAttributes(d))),
                          node.tag_name)
    /\ node.inline_styles =
           CreateInlineStyleAttributesInstance(
               ValidateAttributes(MappedAttributes(d))).value

NonEmptyMapper == mapper.t = "dict" /\ mapper.v # <<>>

\* C28: after from_dict with a non-empty attrs_mapper every node of the tree,
\* the root and every descendant, has the attributes of
\* attrs_mapper[attrs_map_identifier] (default when the key is absent, none
\* when the identifier has no entry) instead of its inline attributes, and
\* records the identifier.
C28_EveryNodeUsesTheMapper ==
    (pc = "built" /\ NonEmptyMapper) =>
        \A ref \in 1..Len(heap) :
            TakesAttributesFromMapper(heap[ref], DictsInOrderOfCreation(input)[ref])

\* the root of the tree built with a non-empty attrs_mapper has the
\* attributes of its entry
C28_RootUsesTheMapper ==
    (pc = "built" /\ NonEmptyMapper) => TakesAttributesFromMapper(heap[root], input)

\* a tree with a descendant was built with a non-empty attrs_mapper and the
\* entry of the root differs from its inline attributes
C28_RootWitness ==
    /\ pc = "built"
    /\ NonEmptyMapper
    /\ Len(heap) > 1
    /\ heap[root].attributes # <<>>
    /\ heap[root].attributes #
           AttributesInit(CleanAttributes(ValidateAttributes(RawAttributes(input))),
                          heap[root].tag_name)

(***************************************************************************)
(* The package html_conv: HTMLNode.from_dict and the converter.            *)
(***************************************************************************)
\* the nested activations of node_to_html that the interpreter allows
MaxCallDepth == 3

\* html_conv HTMLNode.__init__: the n-th object made
HtmlConvNodeInit(tag_name, attributes, is_self_closed_tag, inline_styles, n) ==
    [node_id |-> GetUniqueId(attributes, n),
     tag_name |-> tag_name,
     attributes |-> attributes,
     inline_styles |-> inline_styles,
     children |-> <<>>,
     is_self_closed_tag |-> is_self_closed_tag]

\* a node as an element of a children tuple
HtmlConvChild(node) == [t |-> "HTMLNode", v |-> node]

\* del raw_attrs["style"]
RECURSIVE DictDel(_, _)
DictDel(pairs, key) ==
    IF pairs = <<>> THEN <<>>
    ELSE IF pairs[1][1] = key THEN DictDel(Tail(pairs), key)
    ELSE <<pairs[1]>> \o DictDel(Tail(pairs), key)

\* create_inline_style_attributes_instance that reads the style and leaves
\* raw_attrs as it is
CreateInlineStyleAttributesInstanceReadOnly(raw_attrs) ==
    IF ~DictHas(raw_attrs, STYLE)
    THEN [ok |-> TRUE, value |-> InlineStyleAttributesInit(<<>>), raw_attrs |-> raw_attrs]
    ELSE LET inline_styles == DictGet(raw_attrs, STYLE)
         IN  IF inline_styles.t = "dict"
             THEN [ok |-> TRUE, value |-> InlineStyleAttributesInit(inline_styles.v),
                   raw_attrs |-> raw_attrs]
             ELSE [ok |-> FALSE, value |-> <<>>, raw_attrs |-> raw_attrs]

\* html_conv HTMLNode.create_inline_style_attributes_instance: the styles,
\* and raw_attrs after the call
HtmlConvCreateInlineStyleAttributesInstance(raw_attrs) ==
    IF ~DictHas(raw_attrs, STYLE)
    THEN [ok |-> TRUE, value |-> InlineStyleAttributesInit(<<>>), raw_attrs |-> raw_attrs]
    ELSE LET inline_styles == DictGet(raw_attrs, STYLE)
         IN  IF inline_styles.t = "dict"
             THEN [ok |-> TRUE, value |-> InlineStyleAttributesInit(inline_styles.v),
                   raw_attrs |-> DictDel(raw_attrs, STYLE)]
             ELSE [ok |-> FALSE, value |-> <<>>, raw_attrs |-> raw_attrs]

\* Attributes(interpretable_data.get("attributes", {}), tag_name)
HtmlConvAttributes(raw_attrs, tag_name) ==
    AttributesInit([i \in 1..Len(raw_attrs) |-> <<raw_attrs[i][1], raw_attrs[i][2].v>>],
                   tag_name)

HtmlConvRaise(exc, text, data, made) ==
    [ok |-> FALSE, exc |-> exc, msg |-> Msg(text, <<>>), data |-> data,
     node |-> <<>>, made |-> made]

\* html_conv HTMLNode.from_dict(interpretable_data) with made objects made
\* before it: the node or the exception, interpretable_data after the call
\* and the objects made after it
RECURSIVE HtmlConvFromDict(_, _)
RECURSIVE GenerateChildrenHtml(_, _)
HtmlConvFromDict(interpretable_data, made) ==
    LET tag_name == Get(interpretable_data, "tag_name", PyNone)
    IN
    IF tag_name.t # "str" \/ ~HasTag(tag_name.v)
    THEN HtmlConvRaise("ValueError", "Dictionary must contain valid 'tag_name' key",
                       interpretable_data, made)
    ELSE
    LET is_self_closed_tag == TagValues(tag_name.v).self_closed
        raw_attrs == Get(interpretable_data, "attributes", PyDict(<<>>))
        inline_styles == HtmlConvCreateInlineStyleAttributesInstance(raw_attrs.v)
    IN
    IF ~inline_styles.ok
    THEN HtmlConvRaise("ValueError", "Style attribute must be a dictionary",
                       interpretable_data, made)
    ELSE
    LET after_styles ==
            IF HasKey(interpretable_data, "attributes")
            THEN [interpretable_data EXCEPT !.v.attributes.v = inline_styles.raw_attrs]
            ELSE interpretable_data
        attributes ==
            HtmlConvAttributes(Get(after_styles, "attributes", PyDict(<<>>)).v,
                               tag_name.v)
        node == HtmlConvNodeInit(tag_name.v, attributes, is_self_closed_tag,
                                 inline_styles.value, made + 1)
        children == Get(after_styles, "children", PyTuple(<<>>))
    IN
    IF children.t \notin {"list", "tuple"}
    THEN HtmlConvRaise("TypeError", "object is not iterable", after_styles, made + 1)
    ELSE
    LET generated == GenerateChildrenHtml(children.v, made + 1)
        after_children ==
            IF HasKey(after_styles, "children")
            THEN [after_styles EXCEPT !.v.children.v = generated.data]
            ELSE after_styles
    IN
    IF ~generated.ok
    THEN HtmlConvRaise(generated.exc, generated.msg.text, after_children,
                       generated.made)
    ELSE [ok |-> TRUE, exc |-> "", msg |-> NoMsg, data |-> after_children,
          node |-> [node EXCEPT !.children = generated.nodes],
          made |-> generated.made]

\* html_conv HTMLNode.generate_children_html(children): the children made,
\* and the entries of children after the call
GenerateChildrenHtml(children, made) ==
    IF children = <<>>
    THEN [ok |-> TRUE, exc |-> "", msg |-> NoMsg, data |-> <<>>, nodes |-> <<>>,
          made |-> made]
    ELSE
    LET child_data == Head(children)
        first == IF child_data.t = "dict"
                 THEN HtmlConvFromDict(child_data, made)
                 ELSE [ok |-> TRUE, exc |-> "", msg |-> NoMsg, data |-> child_data,
                       node |-> <<>>, made |-> made]
    IN
    IF ~first.ok
    THEN [ok |-> FALSE, exc |-> first.exc, msg |-> first.msg,
          data |-> <<first.data>> \o Tail(children), nodes |-> <<>>,
          made |-> first.made]
    ELSE
    LET rest == GenerateChildrenHtml(Tail(children), first.made)
        child == IF child_data.t = "dict" THEN HtmlConvChild(first.node)
                 ELSE child_data
    IN  [ok |-> rest.ok, exc |-> rest.exc, msg |-> rest.msg,
         data |-> <<first.data>> \o rest.data,
         nodes |-> IF rest.ok THEN <<child>> \o rest.nodes ELSE <<>>,
         made |-> rest.made]

\* html_conv create_open_tag_string
HtmlConvCreateOpenTagString(node, html_attrs) ==
    <<"<">> \o node.tag_name \o <<" ">> \o html_attrs \o <<">">>

\* html_conv create_self_closing_tag_string
HtmlConvCreateSelfClosingTagString(node, html_attrs) ==
    <<"<">> \o node.tag_name \o <<" ">> \o html_attrs \o <<"/", ">">>

\* the children of the node that are no strings
NodeChildrenOfHtmlConv(node) ==
    {i \in 1..Len(node.children) : node.children[i].t # "str"}

\* html_conv to_html(root_node) when node_to_html is called on strings
\* only
HtmlConvToHtmlOfTexts(root_node) ==
    LET html_attrs == AttributesToHtmlString(root_node.attributes)
    IN  IF root_node.is_self_closed_tag
        THEN HtmlConvCreateSelfClosingTagString(root_node, html_attrs)
        ELSE HtmlConvCreateOpenTagString(root_node, html_attrs)
                 \o Join([i \in 1..Len(root_node.children) |->
                              root_node.children[i].v])
                 \o CreateCloseTagString(root_node)

(***************************************************************************)
(* The inputs and the calls of html_conv.                                  *)
(***************************************************************************)
RedStyle == PyDict(<< <<COLOR, PyStr(<<"r","e","d">>)>> >>)

HtmlConvAttributeChoices ==
    { Absent,
      Present(PyDict(<<>>)),
      Present(PyDict(<< <<CLASS, PyStr(<<"c">>)>> >>)),
      Present(PyDict(<< <<STYLE, RedStyle>> >>)),
      Present(PyDict(<< <<CLASS, PyStr(<<"c">>)>>, <<STYLE, RedStyle>>,
                        <<ID, PyStr(<<"x">>)>> >>)),
      Present(PyDict(<< <<STYLE, PyStr(<<"c",":","r">>)>> >>)) }

StyledP == NodeDict(Present(PyStr(<<"p">>)), Present(PyDict(<< <<STYLE, RedStyle>> >>)), Absent)

HtmlConvChildrenChoices ==
    { Absent,
      Present(PyNone),
      Present(PyList(<<TextHi>>)),
      Present(PyList(<<LeafP>>)),
      Present(PyTuple(<<TextHi, StyledP>>)),
      Present(PyList(<<StyledP, LeafUnknown>>)),
      Present(PyList(<<NodeDict(Present(PyStr(DIV)), Absent,
                                Present(PyList(<<StyledP, TextHi>>)))>>)) }

HtmlConvTagChoices ==
    {Present(PyStr(DIV)), Present(PyStr(IMG)), Present(PyStr(<<"x","y","z">>)), Absent}

\* the dictionaries given to html_conv HTMLNode.from_dict
HtmlConvInputs ==
    {NodeDict(t, a, c) : t \in HtmlConvTagChoices, a \in HtmlConvAttributeChoices,
                         c \in HtmlConvChildrenChoices}

\* HTMLNode.from_dict(input) of html_conv is called, on the dictionary as
\* the calls before have left it; heap holds the trees returned so far
HtmlConvFromDictCall ==
    /\ pc \in {"start", "built", "failed", "rendered"}
    /\ builds <= MaxRebuilds
    /\ LET result == HtmlConvFromDict(input, 0)
       IN  /\ input' = result.data
           /\ outcome' = [ok |-> result.ok, exc |-> result.exc, msg |-> result.msg]
           /\ heap' = IF result.ok THEN Append(heap, result.node) ELSE heap
           /\ root' = IF result.ok THEN Len(heap) + 1 ELSE 0
           /\ pc' = IF result.ok THEN "built" ELSE "failed"
    /\ builds' = builds + 1
    /\ last' = Call("from_dict", 0, <<>>, <<input>>, <<>>)
    /\ rendered' = 0
    /\ html' = <<>>
    /\ UNCHANGED <<mapper, stack, ops, first_html>>

\* to_html(root) of html_conv is called on the tree returned last: it
\* returns when no child is a node, and calls node_to_html on the first
\* child that is a node otherwise
HtmlConvToHtmlCall ==
    /\ pc = "built"
    /\ LET root_node == heap[root]
       IN  IF root_node.is_self_closed_tag \/ NodeChildrenOfHtmlConv(root_node) = {}
           THEN /\ html' = HtmlConvToHtmlOfTexts(root_node)
                /\ pc' = "rendered"
                /\ rendered' = 0
                /\ last' = Call("to_html", root, <<>>, <<>>, <<>>)
           ELSE /\ html' = <<>>
                /\ pc' = "rendering"
                /\ rendered' = 1
                /\ last' = Call("node_to_html", root,
                                <<root_node.children[Smallest(NodeChildrenOfHtmlConv(root_node))]>>,
                                <<HtmlConvChild(root_node)>>, <<>>)
    /\ outcome' = NoOutcome
    /\ UNCHANGED <<input, mapper, stack, heap, root, ops, builds, first_html>>

\* node_to_html(child) of html_conv on a child that is no string: it calls
\* node_to_html(child), until the interpreter raises RecursionError
HtmlConvNodeToHtml ==
    /\ pc = "rendering"
    /\ IF rendered < MaxCallDepth
       THEN /\ rendered' = rendered + 1
            /\ last' = Call("node_to_html", root, last.args, last.args, <<>>)
            /\ UNCHANGED <<pc, outcome>>
       ELSE /\ rendered' = 0
            /\ pc' = "rendered"
            /\ outcome' = [ok |-> FALSE, exc |-> "RecursionError",
                           msg |-> Msg("maximum recursion depth exceeded", <<>>)]
            /\ UNCHANGED last
    /\ UNCHANGED <<input, mapper, stack, heap, root, ops, html, builds, first_html>>

InitHtmlConv == input \in HtmlConvInputs /\ Start

NextHtmlConv == HtmlConvFromDictCall \/ HtmlConvToHtmlCall \/ HtmlConvNodeToHtml

SpecHtmlConv == InitHtmlConv /\ [][NextHtmlConv]_vars

(***************************************************************************)
(* C29: html_conv from_dict and its input.                                 *)
(***************************************************************************)
\* the tree of the node without the identifiers of its nodes
RECURSIVE WithoutIds(_)
WithoutIds(node) ==
    [tag_name |-> node.tag_name,
     attributes |-> node.attributes,
     inline_styles |-> node.inline_styles,
     is_self_closed_tag |-> node.is_self_closed_tag,
     children |-> [i \in 1..Len(node.children) |->
                      IF node.children[i].t = "HTMLNode"
                      THEN WithoutIds(node.children[i].v)
                      ELSE node.children[i]]]

\* C29: from_dict of html_conv leaves its input dictionary as it was, whether
\* it returns or raises, and successive calls on the same dictionary return
\* trees with equal inline styles and equal attributes.
C29_FromDictLeavesInputUnchanged ==
    last.op = "from_dict" =>
        /\ input = last.before[1]
        /\ \A i, j \in 1..Len(heap) : WithoutIds(heap[i]) = WithoutIds(heap[j])

\* two calls returned trees that differ in their inline styles
C29_SecondTreeWithoutStyles ==
    /\ Len(heap) = 2
    /\ heap[1].inline_styles # <<>>
    /\ heap[2].inline_styles = <<>>

\* a call raised and had changed the dictionary before
C29_ChangedAndFailed ==
    /\ last.op = "from_dict"
    /\ pc = "failed"
    /\ input # last.before[1]

(***************************************************************************)
(* C30: the converter of html_conv.                                        *)
(***************************************************************************)
\* the number of nodes of the tree of a child
RECURSIVE Size(_)
RECURSIVE SizeOfAll(_)
Size(child) ==
    IF child.t = "HTMLNode" THEN 1 + SizeOfAll(child.v.children) ELSE 0

SizeOfAll(children) ==
    IF children = <<>> THEN 0
    ELSE Size(Head(children)) + SizeOfAll(Tail(children))

\* the markup of the node: its tag around the text of its string children and
\* the markup of its node children
RECURSIVE Markup(_)
Markup(node) ==
    LET html_attrs == AttributesToHtmlString(node.attributes)
    IN  IF node.is_self_closed_tag
        THEN HtmlConvCreateSelfClosingTagString(node, html_attrs)
        ELSE HtmlConvCreateOpenTagString(node, html_attrs)
                 \o Join([i \in 1..Len(node.children) |->
                              IF node.children[i].t = "HTMLNode"
                              THEN Markup(node.children[i].v)
                              ELSE node.children[i].v])
                 \o CreateCloseTagString(node)

\* C30: every call of node_to_html of html_conv on a node is made by a call
\* on a strictly larger tree, and to_html of a tree returns a string, the
\* markup of the children between the tags of the parent.
C30_SerializationTerminatesWithMarkup ==
    /\ last.op = "node_to_html" => Size(last.args[1]) < Size(last.before[1])
    /\ pc = "rendered" => (outcome.ok /\ html = Markup(heap[root]))

\* to_html of a node with a child that is a node raised RecursionError
C30_RecursionError ==
    /\ pc = "rendered"
    /\ outcome.exc = "RecursionError"
    /\ Len(heap[root].children) = 1

\* to_html of a node without node children returned its markup
C30_TextOnly ==
    /\ pc = "rendered"
    /\ outcome.ok
    /\ heap[root].children # <<>>
    /\ html = Markup(heap[root])

====
